---- MODULE Spec2Model ----
(***************************************************************************)
(* Adaptive arithmetic coder (src/src/ae.rs) over the bit framing layer    *)
(* (src/src/bitio.rs).                                                     *)
(*                                                                         *)
(* Machine integers.  TLC's integers are 32-bit signed, the program's are  *)
(* u32 and (64-bit) usize.  A machine integer is therefore held as a       *)
(* little-endian tuple of five base-2^15 limbs (75 bits); u32 values keep  *)
(* their width through Trunc32.  Bits 31 and 30 of a u32 are the two bits  *)
(* of the third limb.  Symbol counts are held as plain naturals (they stay *)
(* far below 2^31 in every run explored) and widened with Nat2Big where    *)
(* the program widens them to usize.                                       *)
(***************************************************************************)
EXTENDS Integers, Sequences, FiniteSets, TLC

\* TLC hands an operator its arguments unevaluated and evaluates them on first
\* use; a loop that carries a value through many iterations asks for it here,
\* so that the pending work does not pile up.  Always TRUE.
Evaluated(v) == v = v

\* ------------------------------------------------------------------------
\* Machine arithmetic
\* ------------------------------------------------------------------------
Base == 2^15

BigZero == <<0, 0, 0, 0, 0>>
BigOne == <<1, 0, 0, 0, 0>>

\* a natural below 2^31, widened
Nat2Big(n) == <<n % Base, (n \div Base) % Base, n \div (Base * Base), 0, 0>>

\* the u32 whose upper and lower 16-bit halves are hi and lo
U32(hi, lo) == <<lo % Base, (lo \div Base) + 2 * (hi % 2^14), hi \div 2^14, 0, 0>>

\* a value below 2^30, as a natural
Big2Nat(a) == a[1] + Base * a[2] + Base * Base * a[3]

RECURSIVE AddC(_, _, _, _)
AddS(a, b, i, s) == <<s % Base>> \o AddC(a, b, i + 1, s \div Base)

\* limbs i.. of a + b + carry c
AddC(a, b, i, c) == IF i > 5 THEN <<>> ELSE AddS(a, b, i, a[i] + b[i] + c)

BigAdd(a, b) == AddC(a, b, 1, 0)

RECURSIVE SubB(_, _, _, _)
SubS(a, b, i, d) == <<(d + Base) % Base>> \o SubB(a, b, i + 1, IF d < 0 THEN 1 ELSE 0)

\* limbs i.. of a - b - borrow br
SubB(a, b, i, br) == IF i > 5 THEN <<>> ELSE SubS(a, b, i, a[i] - b[i] - br)

\* a - b, wrapping
BigSub(a, b) == SubB(a, b, 1, 0)

RECURSIVE LessFrom(_, _, _)
LessFrom(a, b, i) ==
    IF i = 0 THEN FALSE
    ELSE IF a[i] # b[i] THEN a[i] < b[i]
    ELSE LessFrom(a, b, i - 1)

BigLess(a, b) == LessFrom(a, b, 5)
BigLeq(a, b) == ~BigLess(b, a)

RECURSIVE MulC(_, _, _, _)
MulS(a, m, i, p) == <<p % Base>> \o MulC(a, m, i + 1, p \div Base)

\* limbs i.. of a * m + carry c for one limb m, wrapping
MulC(a, m, i, c) == IF i > 5 THEN <<>> ELSE MulS(a, m, i, a[i] * m + c)

\* a shifted up by k limbs, wrapping
LimbShift(a, k) == [i \in 1..5 |-> IF i > k THEN a[i - k] ELSE 0]

RECURSIVE MulFrom(_, _, _)
MulFrom(a, b, j) ==
    IF j > 5 THEN BigZero
    ELSE BigAdd(LimbShift(MulC(a, b[j], 1, 0), j - 1), MulFrom(a, b, j + 1))

\* a * b, wrapping
BigMul(a, b) == MulFrom(a, b, 1)

RECURSIVE Digit(_, _, _, _)
\* the largest g in lo..hi with d * g <= r, given d * lo <= r  (d below 2^60)
Digit(r, d, lo, hi) ==
    IF lo = hi THEN lo
    ELSE IF BigLeq(MulC(d, (lo + hi + 1) \div 2, 1, 0), r)
    THEN Digit(r, d, (lo + hi + 1) \div 2, hi)
    ELSE Digit(r, d, lo, (lo + hi + 1) \div 2 - 1)

RECURSIVE DivLimb(_, _, _, _)
DivEmit(a, d, i, r2, g) == DivLimb(a, d, i - 1, BigSub(r2, MulC(d, g, 1, 0))) \o <<g>>

\* long division: the quotient limbs i..1 of a / d, r the remainder of the limbs above i
DivLimb(a, d, i, r) ==
    IF i = 0 THEN <<>>
    ELSE DivEmit(a, d, i, <<a[i], r[1], r[2], r[3], r[4]>>,
                 Digit(<<a[i], r[1], r[2], r[3], r[4]>>, d, 0, Base - 1))

\* floor(a / d), 0 < d < 2^60
BigDiv(a, d) == DivLimb(a, d, 5, BigZero)

\* `as u32`
Trunc32(a) == <<a[1], a[2], a[3] % 4, 0, 0>>

\* a usize result, wrapped to 64 bits
Trunc64(a) == <<a[1], a[2], a[3], a[4], a[5] % 16>>

\* does the value fit the 64-bit usize
FitsU64(a) == a[5] < 16

RECURSIVE AndN(_, _, _)
AndN(x, y, n) ==
    IF n = 0 THEN 0
    ELSE (x % 2) * (y % 2) + 2 * AndN(x \div 2, y \div 2, n - 1)

RECURSIVE OrN(_, _, _)
OrN(x, y, n) ==
    IF n = 0 THEN 0
    ELSE (IF x % 2 = 1 \/ y % 2 = 1 THEN 1 ELSE 0) + 2 * OrN(x \div 2, y \div 2, n - 1)

\* a & b, a | b
BitAnd(a, b) ==
    <<AndN(a[1], b[1], 15), AndN(a[2], b[2], 15), AndN(a[3], b[3], 15),
      AndN(a[4], b[4], 15), AndN(a[5], b[5], 15)>>
BitOr(a, b) ==
    <<OrN(a[1], b[1], 15), OrN(a[2], b[2], 15), OrN(a[3], b[3], 15),
      OrN(a[4], b[4], 15), OrN(a[5], b[5], 15)>>

\* u32 << 1
Shl1(a) == Trunc32(BigAdd(a, a))

X80000000 == U32(32768, 0)
X40000000 == U32(16384, 0)
XC0000000 == U32(49152, 0)
X3FFFFFFF == U32(16383, 65535)

\* ------------------------------------------------------------------------
\* Constants of ae.rs
\* ------------------------------------------------------------------------
MAX_SYMBOLS == 257
MAX_PROBABILITY == U32(65535, 65535)
SYMBOL_EOF == 256

\* ------------------------------------------------------------------------
\* SymbolTable  (ae.rs)
\* ------------------------------------------------------------------------
\* struct Symbol
Symbol(cumulative_count, count) ==
    [cumulative_count |-> cumulative_count, count |-> count]

\* self.table[i + 1].cumulative_count = self.table[i].count + self.table[i].cumulative_count
CumulativeStep(table, i) ==
    [table EXCEPT ![i + 1].cumulative_count = table[i].count + table[i].cumulative_count]

RECURSIVE CumulativeLoop(_, _, _)
CumulativeRest(table, lo, hi) == IF Evaluated(table) THEN CumulativeLoop(table, lo, hi) ELSE table

\* for i in lo..hi: CumulativeStep, in increasing order of i (the range is
\* split in halves only to keep the evaluation shallow)
CumulativeLoop(table, lo, hi) ==
    IF lo >= hi THEN table
    ELSE IF hi - lo = 1 THEN CumulativeStep(table, lo)
    ELSE CumulativeRest(CumulativeLoop(table, lo, (lo + hi) \div 2), (lo + hi) \div 2, hi)

\* increment_symbol with its loop started one symbol late (for i in symbol + 1..)
increment_symbol_late(symbols, symbol) ==
    [symbol_count |-> symbols.symbol_count + 1,
     table |-> CumulativeLoop(
                   [symbols.table EXCEPT ![symbol].count = symbols.table[symbol].count + 1],
                   symbol + 1, MAX_SYMBOLS - 1)]

\* SymbolTable::increment_symbol
increment_symbol(symbols, symbol) ==
    [symbol_count |-> symbols.symbol_count + 1,
     table |-> CumulativeLoop(
                   [symbols.table EXCEPT ![symbol].count = symbols.table[symbol].count + 1],
                   symbol, MAX_SYMBOLS - 1)]

RECURSIVE NewLoop(_, _, _)
NewRest(ret, lo, hi) == IF Evaluated(ret) THEN NewLoop(ret, lo, hi) ELSE ret

\* for i in lo..hi: ret.increment_symbol(i), in increasing order of i
NewLoop(ret, lo, hi) ==
    IF lo >= hi THEN ret
    ELSE IF hi - lo = 1 THEN increment_symbol(ret, lo)
    ELSE NewRest(NewLoop(ret, lo, (lo + hi) \div 2), (lo + hi) \div 2, hi)

\* SymbolTable::new
SymbolTableNew ==
    NewLoop([symbol_count |-> 0, table |-> [i \in 0..(MAX_SYMBOLS - 1) |-> Symbol(0, 0)]],
            0, MAX_SYMBOLS)

\* ------------------------------------------------------------------------
\* Byte sink and byte source
\* ------------------------------------------------------------------------
\* the size of the output buffers the tests of ae.rs encode into
OUTPUT_LEN == 8192

\* a byte sink with room for `capacity` bytes (io::Write for &mut [u8]): once
\* full it takes no byte and returns Ok(0)
SinkNew(capacity) == [data |-> <<>>, capacity |-> capacity, full |-> "short"]

\* a byte sink of another io::Write: once `capacity` bytes are taken, write
\* returns an I/O error
SinkNewFailing(capacity) == [data |-> <<>>, capacity |-> capacity, full |-> "error"]

\* self.writer.write(&[byte]): the number of bytes taken (-1 for an I/O error),
\* and the sink after
SinkWrite(writer, byte) ==
    IF Len(writer.data) < writer.capacity
    THEN [n |-> 1, writer |-> [writer EXCEPT !.data = Append(@, byte)]]
    ELSE [n |-> IF writer.full = "short" THEN 0 ELSE -1, writer |-> writer]

\* a byte source over data (io::Read for &[u8])
SourceNew(data) == [data |-> data, pos |-> 0]

\* self.reader.read(&mut buff) with a one-byte buff
SourceRead(reader) ==
    IF reader.pos < Len(reader.data)
    THEN [n |-> 1, byte |-> reader.data[reader.pos + 1],
          reader |-> [reader EXCEPT !.pos = @ + 1]]
    ELSE [n |-> 0, byte |-> 0, reader |-> reader]

\* ------------------------------------------------------------------------
\* bitio.rs
\* ------------------------------------------------------------------------
\* enum ReadResult
EOF == <<"EOF">>
Bit(b) == <<"Bit", b>>

\* BitReader::new
BitReaderNew(reader) == [reader |-> reader, buffer_length |-> 0, buffer |-> 0]

\* BitReaderTake with the mask counted from the low end (1 << (8 - buffer_length))
BitReaderTakeLowFirst(overflow_checks, self) ==
    IF overflow_checks /\ self.buffer_length > 8
    THEN [status |-> "Panic", result |-> EOF, self |-> self]
    ELSE [status |-> "Ok",
          result |-> Bit(AndN(self.buffer, 2^((8 - self.buffer_length) % 8), 8) # 0),
          self |-> [self EXCEPT !.buffer_length = @ - 1]]

\* the tail of BitReader::read: take the next buffered bit. The mask is a u8:
\* when buffer_length is above 8, which no read leaves it at, the shift is by
\* 8 or more, where a build with overflow checks panics and a build without
\* them shifts by the low three bits of the amount.
BitReaderTake(overflow_checks, self) ==
    IF overflow_checks /\ self.buffer_length > 8
    THEN [status |-> "Panic", result |-> EOF, self |-> self]
    ELSE [status |-> "Ok",
          result |-> Bit(AndN(self.buffer, 2^((self.buffer_length - 1) % 8), 8) # 0),
          self |-> [self EXCEPT !.buffer_length = @ - 1]]

\* BitReader::read: Ok or Panic, the result and the reader after
BitReader_read(overflow_checks, self) ==
    IF self.buffer_length = 0
    THEN LET r == SourceRead(self.reader)
         IN  IF r.n = 1
             THEN BitReaderTake(overflow_checks,
                                [reader |-> r.reader, buffer_length |-> 8, buffer |-> r.byte])
             ELSE [status |-> "Ok", result |-> EOF,
                   self |-> [self EXCEPT !.reader = r.reader]]
    ELSE BitReaderTake(overflow_checks, self)

\* BitWriter::new
BitWriterNew(writer) == [writer |-> writer, buffer_length |-> 0, buffer |-> 0]

\* BitWriterEmit without its anyhow::ensure! and `?`: what the sink answers is
\* not looked at
BitWriterEmitUnchecked(self) ==
    [status |-> "Ok",
     self |-> [writer |-> SinkWrite(self.writer, self.buffer).writer,
               buffer_length |-> 0, buffer |-> 0]]

\* the emission of BitWriter::write and BitWriter::flush:
\* anyhow::ensure!(self.writer.write(&[self.buffer])? == 1), then the reset
BitWriterEmit(self) ==
    LET w == SinkWrite(self.writer, self.buffer)
    IN  IF w.n = 1
        THEN [status |-> "Ok",
              self |-> [writer |-> w.writer, buffer_length |-> 0, buffer |-> 0]]
        ELSE [status |-> "Err", self |-> [self EXCEPT !.writer = w.writer]]

\* BitWriter::write with the bit placed from the low end (<< buffer_length)
BitWriter_write_low_first(overflow_checks, self, x) ==
    IF overflow_checks /\ self.buffer_length > 7 THEN [status |-> "Panic", self |-> self]
    ELSE LET filled ==
                 [self EXCEPT
                     !.buffer = OrN(@, (IF x THEN 1 ELSE 0) * 2^(self.buffer_length % 8), 8),
                     !.buffer_length = @ + 1]
         IN  IF filled.buffer_length = 8
             THEN BitWriterEmit(filled)
             ELSE [status |-> "Ok", self |-> filled]

\* BitWriter::write: Ok or Err (the sink took no byte), and the writer after.
\* When buffer_length is above 7, as an earlier Err leaves it, 7 - buffer_length
\* falls below zero: a build with overflow checks (the dev and test profiles)
\* panics there; a build without them (the release and bench profiles) wraps
\* the difference, shifts by its low three bits, and goes on.
BitWriter_write(overflow_checks, self, x) ==
    IF overflow_checks /\ self.buffer_length > 7 THEN [status |-> "Panic", self |-> self]
    ELSE LET filled ==
                 [self EXCEPT
                     !.buffer = OrN(@, (IF x THEN 1 ELSE 0)
                                          * 2^((7 - self.buffer_length) % 8), 8),
                     !.buffer_length = @ + 1]
         IN  IF filled.buffer_length = 8
             THEN BitWriterEmit(filled)
             ELSE [status |-> "Ok", self |-> filled]

\* BitWriter::flush without its test of buffer_length
BitWriter_flush_always(self) == BitWriterEmit(self)

\* BitWriter::flush
BitWriter_flush(self) ==
    IF self.buffer_length > 0 THEN BitWriterEmit(self)
    ELSE [status |-> "Ok", self |-> self]

\* ------------------------------------------------------------------------
\* ae.rs: Encoder
\* ------------------------------------------------------------------------
\* a u32 comparison, self.high > self.low
HighAboveLow(self) == BigLess(self.low, self.high)

\* RangeOf with one added twice
RangeOfPlusTwo(self) == BigAdd(BigSub(self.high, self.low), Nat2Big(2))

\* usize: (self.high - self.low) as usize + 1
RangeOf(self) == BigAdd(BigSub(self.high, self.low), BigOne)

\* Encoder::new
EncoderNew(writer) ==
    [high |-> MAX_PROBABILITY, low |-> BigZero, underflow |-> 0,
     symbols |-> SymbolTableNew, bit_writer |-> BitWriterNew(writer)]

\* NarrowHigh with the - 1 forgotten
NarrowHighNoMinus(overflow_checks, self, symbol_upper, range) ==
    IF self.symbols.symbol_count = 0 THEN [status |-> "Panic", high |-> self.high]
    ELSE [status |-> "Ok",
          high |-> Trunc32(BigAdd(self.low,
                                  BigDiv(BigMul(Nat2Big(symbol_upper), range),
                                         Nat2Big(self.symbols.symbol_count))))]

\* self.low as usize + ((symbol_upper * range) / self.symbols.symbol_count), the
\* usize value from which the new high takes 1
HighPlusOne(self, symbol_upper, range) ==
    BigAdd(self.low,
           BigDiv(BigMul(Nat2Big(symbol_upper), range),
                  Nat2Big(self.symbols.symbol_count)))

\* (self.low as usize + ((symbol_upper * range) / self.symbols.symbol_count) - 1) as u32:
\* Ok and the new high, or Panic and the high there was. The division panics
\* in every build when symbol_count is 0; the - 1 falls below zero when the
\* sum before it is 0, where a build with overflow checks panics and a build
\* without them wraps to 0xFFFFFFFF.
NarrowHigh(overflow_checks, self, symbol_upper, range) ==
    IF self.symbols.symbol_count = 0 THEN [status |-> "Panic", high |-> self.high]
    ELSE LET sum == HighPlusOne(self, symbol_upper, range)
         IN  IF overflow_checks /\ sum = BigZero
             THEN [status |-> "Panic", high |-> self.high]
             ELSE [status |-> "Ok", high |-> Trunc32(BigSub(sum, BigOne))]

\* (self.low as usize + ((symbol_lower * range) / self.symbols.symbol_count)) as u32:
\* Ok and the new low, or Panic (the division, when symbol_count is 0) and the
\* low there was
NarrowLow(self, symbol_lower, range) ==
    IF self.symbols.symbol_count = 0 THEN [status |-> "Panic", low |-> self.low]
    ELSE [status |-> "Ok",
          low |-> Trunc32(BigAdd(self.low,
                                 BigDiv(BigMul(Nat2Big(symbol_lower), range),
                                        Nat2Big(self.symbols.symbol_count))))]

\* the assert! that follows the two assignments of a narrowing
NarrowTo(self, high, low) ==
    [status |-> IF BigLess(low, high) THEN "Ok" ELSE "Panic",
     self |-> [self EXCEPT !.high = high, !.low = low]]

\* self.high = ...; self.low = ...; assert!(self.high > self.low), for the
\* symbol whose counts are symbol_lower and symbol_upper: a statement that
\* panics leaves what was assigned before it
NarrowBoth(overflow_checks, self, symbol_lower, symbol_upper) ==
    LET h == NarrowHigh(overflow_checks, self, symbol_upper, RangeOf(self))
        l == NarrowLow(self, symbol_lower, RangeOf(self))
    IN  IF h.status # "Ok" THEN [status |-> "Panic", self |-> self]
        ELSE IF l.status # "Ok"
        THEN [status |-> "Panic", self |-> [self EXCEPT !.high = h.high]]
        ELSE NarrowTo(self, h.high, l.low)

\* Encoder::calculate_symbol_range: Ok or Panic (an assert! fails, symbol is
\* not an index of the table, or a narrowing statement panics), and the
\* encoder after
calculate_symbol_range(overflow_checks, self, symbol) ==
    IF ~HighAboveLow(self) THEN [status |-> "Panic", self |-> self]
    ELSE IF symbol \notin DOMAIN self.symbols.table
    THEN [status |-> "Panic", self |-> self]
    ELSE NarrowBoth(overflow_checks, self,
                    self.symbols.table[symbol].cumulative_count,
                    self.symbols.table[symbol].cumulative_count
                        + self.symbols.table[symbol].count)

\* LoopBranch without its near-midpoint branch
LoopBranchNoUnderflow(self) ==
    IF BitAnd(self.high, X80000000) = BitAnd(self.low, X80000000) THEN "match"
    ELSE "break"

\* the branch an iteration of the renormalization loop takes
LoopBranch(self) ==
    IF BitAnd(self.high, X80000000) = BitAnd(self.low, X80000000) THEN "match"
    ELSE IF BitAnd(self.high, XC0000000) = X80000000
            /\ BitAnd(self.low, X40000000) = X40000000 THEN "underflow"
    ELSE "break"

\* one bit written through the encoder's bit writer
EncoderWrite(overflow_checks, self, x) ==
    LET w == BitWriter_write(overflow_checks, self.bit_writer, x)
    IN  [status |-> w.status, self |-> [self EXCEPT !.bit_writer = w.self]]

RECURSIVE UnderflowLoop(_, _)
UnderflowWritten(overflow_checks, w) ==
    IF w.status # "Ok" THEN w
    ELSE UnderflowLoop(overflow_checks, [w.self EXCEPT !.underflow = @ - 1])

\* while self.underflow != 0 { write(complement of the MSB of low)?; self.underflow -= 1 }
UnderflowLoop(overflow_checks, self) ==
    IF self.underflow = 0 THEN [status |-> "Ok", self |-> self]
    ELSE UnderflowWritten(overflow_checks,
                          EncoderWrite(overflow_checks, self,
                                       BitAnd(self.low, X80000000) # X80000000))

\* MatchBranch with the loop over the pending underflow bits forgotten
MatchBranchNoCopies(overflow_checks, self) ==
    EncoderWrite(overflow_checks, self, BitAnd(self.low, X80000000) = X80000000)

\* the MSB branch: the MSB of low is written, then the pending underflow bits
MatchBranch(overflow_checks, self) ==
    LET w == EncoderWrite(overflow_checks, self, BitAnd(self.low, X80000000) = X80000000)
    IN  IF w.status # "Ok" THEN w ELSE UnderflowLoop(overflow_checks, w.self)

\* UnderflowBranch with the obliterated bit left uncounted
UnderflowBranchNoCount(self) ==
    [self EXCEPT !.low = BitAnd(@, X3FFFFFFF),
                 !.high = BitOr(@, X40000000)]

\* UnderflowBranch counting the obliterated bit twice
UnderflowBranchTwice(self) ==
    [self EXCEPT !.underflow = @ + 2,
                 !.low = BitAnd(@, X3FFFFFFF),
                 !.high = BitOr(@, X40000000)]

\* the near-midpoint branch of the encoder
UnderflowBranch(self) ==
    [self EXCEPT !.underflow = @ + 1,
                 !.low = BitAnd(@, X3FFFFFFF),
                 !.high = BitOr(@, X40000000)]

\* ShiftOut with both shifts forgotten
ShiftOutNothing(self) == self

\* self.high = self.high << 1; self.low = self.low << 1
ShiftOut(self) == [self EXCEPT !.high = Shl1(@), !.low = Shl1(@)]

\* self.high = self.high | 1
FillHigh(self) == [self EXCEPT !.high = BitOr(@, BigOne)]

\* the rest of an iteration after its branch: assert!, shift, assert!, fill, assert!
EncoderShift(self) ==
    IF ~HighAboveLow(self) THEN [status |-> "Panic", self |-> self]
    ELSE IF ~HighAboveLow(ShiftOut(self)) THEN [status |-> "Panic", self |-> ShiftOut(self)]
    ELSE [status |-> IF HighAboveLow(FillHigh(ShiftOut(self))) THEN "Ok" ELSE "Panic",
          self |-> FillHigh(ShiftOut(self))]

\* one iteration of the loop of encode_next that does not break
EncoderIteration(overflow_checks, self) ==
    IF LoopBranch(self) = "match"
    THEN LET w == MatchBranch(overflow_checks, self)
         IN  IF w.status # "Ok" THEN w ELSE EncoderShift(w.self)
    ELSE EncoderShift(UnderflowBranch(self))

RECURSIVE EncoderLoop(_, _)
EncoderIterated(overflow_checks, r) ==
    IF r.status # "Ok" THEN r ELSE EncoderLoop(overflow_checks, r.self)

\* the loop of encode_next, to its break
EncoderLoop(overflow_checks, self) ==
    IF LoopBranch(self) = "break" THEN [status |-> "Ok", self |-> self]
    ELSE EncoderIterated(overflow_checks, EncoderIteration(overflow_checks, self))

\* self.symbols.increment_symbol(symbol)
UpdateModel(self, symbol) ==
    [self EXCEPT !.symbols = increment_symbol(@, symbol)]

\* Encoder::encode_next
encode_next(overflow_checks, self, symbol) ==
    LET n == calculate_symbol_range(overflow_checks, self, symbol)
    IN  IF n.status # "Ok" THEN n
        ELSE LET l == EncoderLoop(overflow_checks, n.self)
             IN  IF l.status # "Ok" THEN l
                 ELSE [status |-> "Ok", self |-> UpdateModel(l.self, symbol)]

RECURSIVE TailLoop(_, _)
TailWritten(overflow_checks, w) ==
    IF w.status # "Ok" THEN w ELSE TailLoop(overflow_checks, w.self)

\* while self.underflow > 0 { self.underflow -= 1; write(complement of bit 30 of low)? }
TailLoop(overflow_checks, self) ==
    IF self.underflow = 0 THEN [status |-> "Ok", self |-> self]
    ELSE TailWritten(overflow_checks,
                     EncoderWrite(overflow_checks, [self EXCEPT !.underflow = @ - 1],
                                  BitAnd(self.low, X40000000) # X40000000))

\* self.bit_writer.flush()
EncoderFlush(self) ==
    LET f == BitWriter_flush(self.bit_writer)
    IN  [status |-> f.status, self |-> [self EXCEPT !.bit_writer = f.self]]

\* EncoderTail with bit 31 of low taken for bit 30
EncoderTailMsb(overflow_checks, self) ==
    LET w == EncoderWrite(overflow_checks, [self EXCEPT !.underflow = @ + 1],
                          BitAnd(self.low, X80000000) = X80000000)
    IN  IF w.status # "Ok" THEN w
        ELSE LET t == TailLoop(overflow_checks, w.self)
             IN  IF t.status # "Ok" THEN t ELSE EncoderFlush(t.self)

\* EncoderTail with the increment of underflow forgotten
EncoderTailShort(overflow_checks, self) ==
    LET w == EncoderWrite(overflow_checks, self, BitAnd(self.low, X40000000) = X40000000)
    IN  IF w.status # "Ok" THEN w
        ELSE LET t == TailLoop(overflow_checks, w.self)
             IN  IF t.status # "Ok" THEN t ELSE EncoderFlush(t.self)

\* the writes of encode_end after its encode_next(SYMBOL_EOF): underflow += 1,
\* bit 30 of low, then the loop over the pending bits
EncoderTailWrites(overflow_checks, self) ==
    LET w == EncoderWrite(overflow_checks, [self EXCEPT !.underflow = @ + 1],
                          BitAnd(self.low, X40000000) = X40000000)
    IN  IF w.status # "Ok" THEN w ELSE TailLoop(overflow_checks, w.self)

\* encode_end after its encode_next(SYMBOL_EOF): the finalize tail and the flush
EncoderTail(overflow_checks, self) ==
    LET t == EncoderTailWrites(overflow_checks, self)
    IN  IF t.status # "Ok" THEN t ELSE EncoderFlush(t.self)

\* Encoder::encode_end
encode_end(overflow_checks, self) ==
    LET e == encode_next(overflow_checks, self, SYMBOL_EOF)
    IN  IF e.status # "Ok" THEN e ELSE EncoderTail(overflow_checks, e.self)

\* ------------------------------------------------------------------------
\* ae.rs: Decoder
\* ------------------------------------------------------------------------
\* CodeBit with a 0 taken at the end of the source
CodeBitZeroAtEof(result) == IF result = Bit(TRUE) THEN BigOne ELSE BigZero

\* the bit a read gives the decoder's code: end of source counts as a 1
CodeBit(result) == IF result = EOF \/ result = Bit(TRUE) THEN BigOne ELSE BigZero

RECURSIVE PrefillLoop(_, _)
PrefillRead(p, n, r) ==
    PrefillLoop([self |-> [p.self EXCEPT !.bit_reader = r.self,
                                         !.code = BitOr(Shl1(@), CodeBit(r.result))],
                 reads |-> p.reads + 1],
                n - 1)

\* for _ in 0..32 { code = code << 1; code |= the next bit }, n iterations left;
\* p.self is the decoder under construction and p.reads the bit_reader.read()
\* calls made for it. The reader is the one Decoder::new has just made: its
\* buffer_length stays within 0..8, where a read does the same in every build.
PrefillLoop(p, n) ==
    IF n = 0 \/ ~Evaluated(p) THEN p
    ELSE PrefillRead(p, n, BitReader_read(TRUE, p.self.bit_reader))

\* Decoder::new before its loop: the fields as initialised, and no read made
DecoderStart(reader) ==
    [self |-> [high |-> MAX_PROBABILITY, low |-> BigZero, code |-> BigZero,
               symbols |-> SymbolTableNew, bit_reader |-> BitReaderNew(reader)],
     reads |-> 0]

\* DecoderNew with 31 bits read into code
DecoderNewShortPrefill(reader) == PrefillLoop(DecoderStart(reader), 31).self

\* Decoder::new, with the reads it has made
DecoderNewCounted(reader) == PrefillLoop(DecoderStart(reader), 32)

\* Decoder::new
DecoderNew(reader) == DecoderNewCounted(reader).self

\* ScaledValue with the - 1 forgotten
ScaledValueNoMinus(overflow_checks, self) ==
    IF overflow_checks /\ BigLess(self.code, self.low)
    THEN [status |-> "Panic", temp |-> BigZero]
    ELSE [status |-> "Ok",
          temp |-> BigDiv(Trunc64(BigMul(Trunc64(BigAdd(Trunc64(BigSub(self.code,
                                                                       self.low)),
                                                         BigOne)),
                                          Nat2Big(self.symbols.symbol_count))),
                          RangeOf(self))]

\* (self.code as usize - self.low as usize + 1) * self.symbols.symbol_count, in
\* usize arithmetic that wraps
ScaledProduct(self) ==
    Trunc64(BigMul(Trunc64(BigAdd(Trunc64(BigSub(self.code, self.low)), BigOne)),
                   Nat2Big(self.symbols.symbol_count)))

\* ((self.code as usize - self.low as usize + 1) * self.symbols.symbol_count - 1) / range:
\* Ok and temp, or Panic. code - low falls below zero when code is below low,
\* and the - 1 when the product is 0: a build with overflow checks panics
\* there, a build without them wraps.
ScaledValue(overflow_checks, self) ==
    LET product == ScaledProduct(self)
    IN  IF overflow_checks /\ (BigLess(self.code, self.low) \/ product = BigZero)
        THEN [status |-> "Panic", temp |-> BigZero]
        ELSE [status |-> "Ok",
              temp |-> BigDiv(Trunc64(BigSub(product, BigOne)), RangeOf(self))]

RECURSIVE SymbolScan(_, _, _)
\* while self.symbols.table[symbol].cumulative_count > temp { symbol -= 1 };
\* -1 stands for the step below symbol 0
\* (sixteen steps are taken at once where all sixteen tests pass, which keeps
\* the evaluation shallow)
SymbolScan(table, temp, symbol) ==
    IF symbol < 0 THEN symbol
    ELSE IF symbol >= 15
            /\ \A i \in (symbol - 15)..symbol :
                   BigLess(temp, Nat2Big(table[i].cumulative_count))
    THEN SymbolScan(table, temp, symbol - 16)
    ELSE IF BigLess(temp, Nat2Big(table[symbol].cumulative_count))
    THEN SymbolScan(table, temp, symbol - 1)
    ELSE symbol

\* FindSymbol with the scan started one symbol low (MAX_SYMBOLS - 2)
FindSymbolBelowEof(self) ==
    SymbolScan(self.symbols.table, ScaledValue(FALSE, self).temp, MAX_SYMBOLS - 2)

\* the symbol calculate_code_range finds for the decoder's code: the scan over
\* temp, which is the same in every build that gets as far as the scan
FindSymbol(self) ==
    SymbolScan(self.symbols.table, ScaledValue(FALSE, self).temp, MAX_SYMBOLS - 1)

\* the narrowing of calculate_code_range once its symbol is found
NarrowToSymbol(overflow_checks, self, symbol) ==
    LET n == NarrowBoth(overflow_checks, self,
                        self.symbols.table[symbol].cumulative_count,
                        self.symbols.table[symbol].cumulative_count
                            + self.symbols.table[symbol].count)
    IN  [status |-> n.status, symbol |-> symbol, self |-> n.self]

\* Decoder::calculate_code_range: Ok or Panic, the symbol found and the decoder
\* after. An assert! that fails panics; symbol -= 1 below zero panics in every
\* build (by the overflow check, or by the index into the table after the
\* wrap); the subtractions of temp and of the new high that fall below zero
\* panic in a build with overflow checks and wrap in a build without them.
calculate_code_range(overflow_checks, self) ==
    IF ~HighAboveLow(self) \/ ScaledValue(overflow_checks, self).status # "Ok"
    THEN [status |-> "Panic", symbol |-> SYMBOL_EOF, self |-> self]
    ELSE IF FindSymbol(self) < 0
    THEN [status |-> "Panic", symbol |-> SYMBOL_EOF, self |-> self]
    ELSE NarrowToSymbol(overflow_checks, self, FindSymbol(self))

\* DecoderUnderflowBranch with the adjustment of code forgotten
DecoderUnderflowBranchKeepCode(self) ==
    [self EXCEPT !.high = BitOr(@, X40000000),
                 !.low = BitAnd(@, X3FFFFFFF)]

\* the near-midpoint branch of the decoder; the u32 subtraction wraps where
\* self.code is below X40000000 and the build does not check for overflow
DecoderUnderflowBranch(self) ==
    [self EXCEPT !.high = BitOr(@, X40000000),
                 !.low = BitAnd(@, X3FFFFFFF),
                 !.code = Trunc32(BigSub(@, X40000000))]

\* DecoderShiftOut with the shift of code forgotten
DecoderShiftOutKeepCode(self) == FillHigh(ShiftOut(self))

\* DecoderShiftOut with the high | 1 forgotten
DecoderShiftOutNoFill(self) == [ShiftOut(self) EXCEPT !.code = Shl1(@)]

\* the shifts of an iteration: high, low and code << 1, then high | 1
DecoderShiftOut(self) == FillHigh([ShiftOut(self) EXCEPT !.code = Shl1(@)])

\* the read of an iteration, and the assert! after it
DecoderShiftIn(overflow_checks, self) ==
    LET r == BitReader_read(overflow_checks, self.bit_reader)
        d == [self EXCEPT !.bit_reader = r.self, !.code = BitOr(@, CodeBit(r.result))]
    IN  IF r.status # "Ok" THEN [status |-> "Panic", self |-> self]
        ELSE [status |-> IF HighAboveLow(d) THEN "Ok" ELSE "Panic", self |-> d]

\* one iteration of the loop of decode_next that does not break;
\* self.code -= 0x40000000 below zero panics in a build with overflow checks,
\* after high and low have been assigned
DecoderIteration(overflow_checks, self) ==
    IF LoopBranch(self) = "match"
    THEN DecoderShiftIn(overflow_checks, DecoderShiftOut(self))
    ELSE IF overflow_checks /\ BigLess(self.code, X40000000)
    THEN [status |-> "Panic",
          self |-> [self EXCEPT !.high = BitOr(@, X40000000),
                                !.low = BitAnd(@, X3FFFFFFF)]]
    ELSE DecoderShiftIn(overflow_checks, DecoderShiftOut(DecoderUnderflowBranch(self)))

RECURSIVE DecoderLoop(_, _)
DecoderIterated(overflow_checks, r) ==
    IF r.status # "Ok" THEN r ELSE DecoderLoop(overflow_checks, r.self)

\* the loop of decode_next, to its break
DecoderLoop(overflow_checks, self) ==
    IF LoopBranch(self) = "break" THEN [status |-> "Ok", self |-> self]
    ELSE DecoderIterated(overflow_checks, DecoderIteration(overflow_checks, self))

\* Decoder::decode_next
decode_next(overflow_checks, self) ==
    LET c == calculate_code_range(overflow_checks, self)
    IN  IF c.status # "Ok" THEN c
        ELSE LET l == DecoderLoop(overflow_checks, c.self)
             IN  [status |-> l.status, symbol |-> c.symbol,
                  self |-> IF l.status = "Ok" THEN UpdateModel(l.self, c.symbol) ELSE l.self]

\* ------------------------------------------------------------------------
\* State
\* ------------------------------------------------------------------------
VARIABLES
    enc,      \* the Encoder
    epc,      \* where the encoder is: "open", "loop" (inside encode_next), "tail"
              \* (inside encode_end, past its encode_next), "closed" (encode_end has
              \* returned Ok), "error", "panic"
    ecall,    \* the call the caller made last: "encode_next", "encode_end", or "none"
    esym,     \* the symbol of the encode_next call under way
    input,    \* the symbols the caller has passed to encode_next, in order
    ehist,    \* the encoder's low, high and model as each encode_next returned
    eshist,   \* the value of eshifts as each encode_next returned
    eiters,   \* the loop iterations entered by the encode_next call under way
    eshifts,  \* the loop iterations the encoder has completed (one shift each)
    dec,      \* the Decoder
    dpc,      \* where the decoder is: "none" (not constructed), "open", "loop", "panic"
    dsym,     \* the symbol of the decode_next call under way
    output,   \* the symbols decode_next has returned, in order
    diters,   \* the loop iterations entered by the decode_next call under way
    dreads,   \* the bit_reader.read() calls the decoder has made
    bw,       \* a BitWriter on its own
    br,       \* a BitReader on its own, over what bw emitted
    bpc,      \* "writing", "flushed", "reading"
    wbits,    \* the bits written to bw, in order
    flushes,  \* the number of flush calls on bw
    rres,     \* the results br.read() has returned, in order
    tbl,      \* a SymbolTable on its own
    tincs     \* the number of increment_symbol calls on tbl since SymbolTable::new

vars == <<enc, epc, ecall, esym, input, ehist, eshist, eiters, eshifts,
          dec, dpc, dsym, output, diters, dreads,
          bw, br, bpc, wbits, flushes, rres, tbl, tincs>>

coderVars == <<enc, epc, ecall, esym, input, ehist, eshist, eiters, eshifts,
               dec, dpc, dsym, output, diters, dreads>>
encoderVars == <<enc, epc, ecall, esym, input, ehist, eshist, eiters, eshifts>>
decoderVars == <<dec, dpc, dsym, output, diters, dreads>>
bitVars == <<bw, br, bpc, wbits, flushes, rres>>
tableVars == <<tbl, tincs>>

\* a part of the state that a specification leaves out
Unused == <<>>

\* ------------------------------------------------------------------------
\* Bounds and inputs
\* ------------------------------------------------------------------------
\* the longest input of the round-trip specification
MaxLen == 3
\* the symbols its caller encodes: the two ends of the alphabet and the symbol
\* whose first interval straddles the midpoint
SymbolChoices == {0, 128, 255}
\* what follows the emitted bytes in the decoder's source: nothing, or bytes
\* left in the buffer
Tails == {<<>>, <<0>>, <<0, 0, 0, 0>>, <<255, 255, 255, 255>>, <<165, 90, 60, 195>>}

\* ------------------------------------------------------------------------
\* Encoder steps
\* ------------------------------------------------------------------------
\* the settings of the build's overflow checks that a step has to tell apart:
\* both where a subtraction of the step can fall below zero (a build with the
\* checks panics there, a build without them wraps), one where none can
\* (every build then does the same)
Profiles(overflows) == IF overflows THEN BOOLEAN ELSE {TRUE}

\* whether the - 1 of a new high can fall below zero: self.low is 0 and
\* (symbol_upper * range) / symbol_count can be 0, which takes a symbol_upper
\* of 0 or a range below symbol_count
HighMayUnderflow(self) ==
    /\ self.low = BigZero
    /\ \/ BigLess(self.high, Nat2Big(self.symbols.symbol_count))
       \/ \E i \in DOMAIN self.symbols.table :
              self.symbols.table[i].cumulative_count + self.symbols.table[i].count = 0

StatusPc(status, ok) ==
    IF status = "Ok" THEN ok ELSE IF status = "Err" THEN "error" ELSE "panic"

\* the encoder's low, high and model, as kept in ehist
Snapshot(self) == [low |-> self.low, high |-> self.high, symbols |-> self.symbols]

\* encode_next(symbol) is entered: calculate_symbol_range
EncodeNextEnter(symbol) ==
    /\ epc = "open"
    /\ \E overflow_checks \in Profiles(HighMayUnderflow(enc)) :
       LET n == calculate_symbol_range(overflow_checks, enc, symbol)
       IN  /\ enc' = n.self
           /\ epc' = StatusPc(n.status, "loop")
    /\ esym' = symbol
    /\ eiters' = 0
    /\ UNCHANGED eshifts

\* the caller calls encode_next(symbol)
EncodeNextCall(symbol) ==
    /\ EncodeNextEnter(symbol)
    /\ ecall' = "encode_next"
    /\ input' = Append(input, symbol)
    /\ UNCHANGED <<ehist, eshist, decoderVars, bitVars, tableVars>>

\* the caller calls encode_end, which enters encode_next(SYMBOL_EOF)
EncodeEndCall ==
    /\ EncodeNextEnter(SYMBOL_EOF)
    /\ ecall' = "encode_end"
    /\ UNCHANGED <<input, ehist, eshist, decoderVars, bitVars, tableVars>>

\* an iteration of the loop of encode_next through its MSB branch
EncoderLoopMatch ==
    /\ epc = "loop"
    /\ LoopBranch(enc) = "match"
    /\ \E overflow_checks \in Profiles(enc.bit_writer.buffer_length > 7) :
       LET r == EncoderIteration(overflow_checks, enc)
       IN  /\ enc' = r.self
           /\ epc' = StatusPc(r.status, "loop")
           /\ eshifts' = IF r.status = "Ok" THEN eshifts + 1 ELSE eshifts
    /\ eiters' = eiters + 1
    /\ UNCHANGED <<ecall, esym, input, ehist, eshist, decoderVars, bitVars, tableVars>>

\* an iteration of the loop of encode_next through its near-midpoint branch
EncoderLoopUnderflow ==
    /\ epc = "loop"
    /\ LoopBranch(enc) = "underflow"
    /\ \E overflow_checks \in Profiles(enc.bit_writer.buffer_length > 7) :
       LET r == EncoderIteration(overflow_checks, enc)
       IN  /\ enc' = r.self
           /\ epc' = StatusPc(r.status, "loop")
           /\ eshifts' = IF r.status = "Ok" THEN eshifts + 1 ELSE eshifts
    /\ eiters' = eiters + 1
    /\ UNCHANGED <<ecall, esym, input, ehist, eshist, decoderVars, bitVars, tableVars>>

\* the loop breaks: the model is updated and encode_next returns Ok, to the
\* caller, or to encode_end, which goes on with its tail
EncoderLoopBreak ==
    /\ epc = "loop"
    /\ LoopBranch(enc) = "break"
    /\ enc' = UpdateModel(enc, esym)
    /\ epc' = IF ecall = "encode_end" THEN "tail" ELSE "open"
    /\ ehist' = IF ehist = Unused THEN ehist ELSE Append(ehist, Snapshot(enc'))
    /\ eshist' = IF eshist = Unused THEN eshist ELSE Append(eshist, eshifts)
    /\ UNCHANGED <<ecall, esym, input, eiters, eshifts, decoderVars, bitVars, tableVars>>

\* encode_end, past its encode_next: the finalize tail and the flush
EncodeEndTail ==
    /\ epc = "tail"
    /\ \E overflow_checks \in Profiles(enc.bit_writer.buffer_length > 7) :
       LET r == EncoderTail(overflow_checks, enc)
       IN  /\ enc' = r.self
           /\ epc' = StatusPc(r.status, "closed")
    /\ UNCHANGED <<ecall, esym, input, ehist, eshist, eiters, eshifts, decoderVars, bitVars, tableVars>>

\* ------------------------------------------------------------------------
\* Decoder steps
\* ------------------------------------------------------------------------
\* the bytes the encoder's sink holds
Emitted == enc.bit_writer.writer.data

\* Decoder::new over the emitted bytes and what follows them
DecoderNewCall(tail) ==
    /\ epc = "closed"
    /\ dpc = "none"
    /\ dec' = DecoderNew(SourceNew(Emitted \o tail))
    /\ dpc' = "open"
    /\ dreads' = DecoderNewCounted(SourceNew(Emitted \o tail)).reads
    /\ UNCHANGED <<dsym, output, diters, encoderVars, bitVars, tableVars>>

\* decode_next is called and entered: calculate_code_range
DecodeNextEnter ==
    /\ dpc = "open"
    /\ \E overflow_checks \in Profiles(BigLess(dec.code, dec.low) \/ HighMayUnderflow(dec)) :
       LET c == calculate_code_range(overflow_checks, dec)
       IN  /\ dec' = c.self
           /\ dsym' = c.symbol
           /\ dpc' = StatusPc(c.status, "loop")
    /\ diters' = 0
    /\ UNCHANGED <<output, dreads, encoderVars, bitVars, tableVars>>

\* the caller of a finished stream decodes as many symbols as were encoded and
\* one more for the end of the stream
DecodeNextCall ==
    /\ Len(output) <= Len(input)
    /\ DecodeNextEnter

\* does the iteration self is about to run get as far as its bit_reader.read()
\* (it does unless code -= 0x40000000 falls below zero and the build checks it)
ReadsBit(overflow_checks, self) ==
    ~(overflow_checks /\ LoopBranch(self) = "underflow" /\ BigLess(self.code, X40000000))

\* an iteration of the loop of decode_next through its MSB branch
DecoderLoopMatch ==
    /\ dpc = "loop"
    /\ LoopBranch(dec) = "match"
    /\ \E overflow_checks \in Profiles(BigLess(dec.code, X40000000)
                                          \/ dec.bit_reader.buffer_length > 8) :
       LET r == DecoderIteration(overflow_checks, dec)
       IN  /\ dec' = r.self
           /\ dpc' = StatusPc(r.status, "loop")
           /\ dreads' = IF ReadsBit(overflow_checks, dec) THEN dreads + 1 ELSE dreads
    /\ diters' = diters + 1
    /\ UNCHANGED <<dsym, output, encoderVars, bitVars, tableVars>>

\* an iteration of the loop of decode_next through its near-midpoint branch
DecoderLoopUnderflow ==
    /\ dpc = "loop"
    /\ LoopBranch(dec) = "underflow"
    /\ \E overflow_checks \in Profiles(BigLess(dec.code, X40000000)
                                          \/ dec.bit_reader.buffer_length > 8) :
       LET r == DecoderIteration(overflow_checks, dec)
       IN  /\ dec' = r.self
           /\ dpc' = StatusPc(r.status, "loop")
           /\ dreads' = IF ReadsBit(overflow_checks, dec) THEN dreads + 1 ELSE dreads
    /\ diters' = diters + 1
    /\ UNCHANGED <<dsym, output, encoderVars, bitVars, tableVars>>

\* the loop breaks: the model is updated and decode_next returns its symbol
DecoderLoopBreak ==
    /\ dpc = "loop"
    /\ LoopBranch(dec) = "break"
    /\ dec' = UpdateModel(dec, dsym)
    /\ output' = Append(output, dsym)
    /\ dpc' = "open"
    /\ UNCHANGED <<dsym, diters, dreads, encoderVars, bitVars, tableVars>>

\* ------------------------------------------------------------------------
\* Spec: a caller encodes up to MaxLen symbols and ends the stream; a decoder
\* is then built over the emitted bytes and decodes them
\* ------------------------------------------------------------------------
InitEncoder ==
    /\ enc = EncoderNew(SinkNew(OUTPUT_LEN))
    /\ epc = "open"
    /\ ecall = "none"
    /\ esym = 0
    /\ input = <<>>
    /\ eiters = 0
    /\ eshifts = 0

InitNoDecoder ==
    /\ dec = Unused
    /\ dsym = 0
    /\ output = <<>>
    /\ diters = 0
    /\ dreads = 0

InitNoBits ==
    /\ bw = Unused
    /\ br = Unused
    /\ bpc = "unused"
    /\ wbits = <<>>
    /\ flushes = 0
    /\ rres = <<>>

InitNoTable ==
    /\ tbl = Unused
    /\ tincs = 0

Init ==
    /\ InitEncoder
    /\ ehist = <<Snapshot(EncoderNew(SinkNew(OUTPUT_LEN)))>>
    /\ eshist = <<0>>
    /\ InitNoDecoder
    /\ dpc = "none"
    /\ InitNoBits
    /\ InitNoTable

Next ==
    \/ \E symbol \in SymbolChoices : Len(input) < MaxLen /\ EncodeNextCall(symbol)
    \/ EncodeEndCall
    \/ EncoderLoopMatch
    \/ EncoderLoopUnderflow
    \/ EncoderLoopBreak
    \/ EncodeEndTail
    \/ \E tail \in Tails : DecoderNewCall(tail)
    \/ DecodeNextCall
    \/ DecoderLoopMatch
    \/ DecoderLoopUnderflow
    \/ DecoderLoopBreak

Spec == Init /\ [][Next]_vars

\* ------------------------------------------------------------------------
\* Claims checked under Spec
\* ------------------------------------------------------------------------
\* a is an initial part of b
IsPrefix(a, b) == Len(a) <= Len(b) /\ \A i \in 1..Len(a) : a[i] = b[i]

\* what a decoder of the finished stream has to return
Expected == input \o <<SYMBOL_EOF>>

\* the decoder exists
Decoding == dpc # "none"

\* the decoder's source is the emitted bytes and nothing else
NoTail == dec.bit_reader.reader.data = Emitted

\* neither side has failed an assert! or a write
NoFailure == epc \notin {"error", "panic"} /\ dpc # "panic"

\* C1 (round trip): a decoder constructed over exactly the bytes emitted for
\* B[0..n-1] and encode_end returns B[0], ..., B[n-1] and then 256: at every
\* moment what it has returned is an initial part of B followed by 256, and
\* neither side fails on the way.
C1_RoundTrip ==
    /\ NoFailure
    /\ (Decoding /\ NoTail) => IsPrefix(output, Expected)

C1_Witness ==
    /\ Decoding /\ NoTail
    /\ Len(input) >= 2
    /\ output = Expected

\* C2 (empty input): with encode_end alone the sink holds at least one byte,
\* and the first decode_next over those bytes returns 256.
C2_EmptyInput ==
    /\ (epc = "closed" /\ input = <<>>) => Len(Emitted) >= 1
    /\ (Decoding /\ NoTail /\ input = <<>> /\ Len(output) >= 1) => output[1] = SYMBOL_EOF
    /\ (input = <<>>) => NoFailure

C2_Witness ==
    /\ Decoding /\ NoTail
    /\ input = <<>>
    /\ Len(Emitted) >= 1
    /\ output = <<SYMBOL_EOF>>

\* C3 (self-delimiting stream): whatever follows the emitted bytes in the
\* decoder's source (nothing, so that reads past the end count as 1-bits, or
\* any of the trailing byte strings) the decoder returns B and then 256.
C3_SelfDelimiting ==
    Decoding => (dpc # "panic" /\ IsPrefix(output, Expected))

\* the decoder has read into trailing bytes that are not all zero and still
\* returned B and 256
C3_Witness ==
    /\ Decoding
    /\ Len(input) >= 1
    /\ output = Expected
    /\ dec.bit_reader.reader.pos > Len(Emitted)
    /\ dec.bit_reader.reader.data[Len(Emitted) + 1] # 0

\* C4 (lockstep): after its k-th decode_next returns (k <= n) the decoder's
\* low, high and model are the encoder's after its k-th encode_next returned;
\* on both sides the model is still the one of the previous return while the
\* narrowing and the loop for the next symbol run, and has grown by exactly one
\* count at the return.
C4_Lockstep ==
    /\ (epc \in {"open", "loop"}) => Len(ehist) = Len(input) + (IF epc = "open" THEN 1 ELSE 0)
                                                  + (IF epc = "loop" /\ ecall = "encode_end" THEN 1 ELSE 0)
    /\ (epc = "loop") => enc.symbols = ehist[Len(ehist)].symbols
    /\ \A k \in 1..Len(ehist) : ehist[k].symbols.symbol_count = MAX_SYMBOLS + (k - 1)
    /\ (dpc = "open" /\ Len(output) <= Len(input)) => Snapshot(dec) = ehist[Len(output) + 1]
    /\ (dpc = "loop" /\ Len(output) <= Len(input)) =>
           dec.symbols = ehist[Len(output) + 1].symbols

C4_Witness ==
    /\ dpc = "open"
    /\ Len(input) >= 2
    /\ Len(output) = Len(input)
    /\ Snapshot(dec) = ehist[Len(output) + 1]
    /\ dec.symbols.symbol_count = MAX_SYMBOLS + Len(input)

\* low <= new_low < new_high <= high, for the state n a narrowing of self gives
Contained(self, n) ==
    /\ BigLeq(self.low, n.low)
    /\ BigLess(n.low, n.high)
    /\ BigLeq(n.high, self.high)

\* low < high at the points inside the iteration that self is about to run:
\* after its branch, after the shifts, after high | 1
InsideIteration(self, branched) ==
    /\ HighAboveLow(branched)
    /\ HighAboveLow(ShiftOut(branched))
    /\ HighAboveLow(FillHigh(ShiftOut(branched)))

\* ------------------------------------------------------------------------
\* SpecBits: bits are written to a BitWriter, it is flushed, and a BitReader
\* reads what it emitted
\* ------------------------------------------------------------------------
\* the most bits written
MaxBits == 9
\* the most flush calls
MaxFlushes == 2
\* the reads made past the last bit of the source
ExtraReads == 2

InitNoCoder ==
    /\ enc = Unused
    /\ epc = "unused"
    /\ ecall = "none"
    /\ esym = 0
    /\ input = <<>>
    /\ ehist = Unused
    /\ eshist = Unused
    /\ eiters = 0
    /\ eshifts = 0
    /\ InitNoDecoder
    /\ dpc = "unused"

InitBits ==
    /\ InitNoCoder
    /\ bw = BitWriterNew(SinkNew(OUTPUT_LEN))
    /\ br = Unused
    /\ bpc = "writing"
    /\ wbits = <<>>
    /\ flushes = 0
    /\ rres = <<>>
    /\ InitNoTable

\* writer.write(x)
BitWrite(x) ==
    /\ bpc = "writing"
    /\ Len(wbits) < MaxBits
    /\ \E overflow_checks \in Profiles(bw.buffer_length > 7) :
       LET r == BitWriter_write(overflow_checks, bw, x)
       IN  /\ bw' = r.self
           /\ bpc' = StatusPc(r.status, "writing")
    /\ wbits' = Append(wbits, x)
    /\ UNCHANGED <<br, flushes, rres, coderVars, tableVars>>

\* writer.flush(), after the writes
BitFlush ==
    /\ bpc \in {"writing", "flushed"}
    /\ flushes < MaxFlushes
    /\ LET r == BitWriter_flush(bw)
       IN  /\ bw' = r.self
           /\ bpc' = StatusPc(r.status, "flushed")
    /\ flushes' = flushes + 1
    /\ UNCHANGED <<br, wbits, rres, coderVars, tableVars>>

\* BitReader::new over the bytes the flushed writer emitted
BitReaderNewCall ==
    /\ bpc = "flushed"
    /\ br' = BitReaderNew(SourceNew(bw.writer.data))
    /\ bpc' = "reading"
    /\ UNCHANGED <<bw, wbits, flushes, rres, coderVars, tableVars>>

\* reader.read()
BitRead ==
    /\ bpc = "reading"
    /\ Len(rres) < 8 * Len(br.reader.data) + ExtraReads
    /\ \E overflow_checks \in Profiles(br.buffer_length > 8) :
       LET r == BitReader_read(overflow_checks, br)
       IN  /\ br' = r.self
           /\ bpc' = StatusPc(r.status, "reading")
           /\ rres' = IF r.status = "Ok" THEN Append(rres, r.result) ELSE rres
    /\ UNCHANGED <<bw, wbits, flushes, coderVars, tableVars>>

NextBits ==
    \/ \E x \in BOOLEAN : BitWrite(x)
    \/ BitFlush
    \/ BitReaderNewCall
    \/ BitRead

SpecBits == InitBits /\ [][NextBits]_vars

\* ------------------------------------------------------------------------
\* SpecTable: a SymbolTable is constructed and incremented
\* ------------------------------------------------------------------------
\* the most increment_symbol calls after construction
MaxIncrements == 5
\* the symbols incremented: the ends of the data alphabet, their neighbours,
\* the middle, and the end-of-stream symbol
TableSymbols == {0, 1, 128, 255, SYMBOL_EOF}

InitTable ==
    /\ InitNoCoder
    /\ InitNoBits
    /\ tbl = SymbolTableNew
    /\ tincs = 0

\* table.increment_symbol(symbol)
TableIncrement(symbol) ==
    /\ tincs < MaxIncrements
    /\ tbl' = increment_symbol(tbl, symbol)
    /\ tincs' = tincs + 1
    /\ UNCHANGED <<coderVars, bitVars>>

NextTable == \E symbol \in TableSymbols : TableIncrement(symbol)

SpecTable == InitTable /\ [][NextTable]_vars

\* ------------------------------------------------------------------------
\* SpecLong: a caller encodes a long run of distinct symbols (0, 1, 2, ... or
\* 255, 254, 253, ... or 3, 10, 17, ... or 128, 229, 74, ...) and ends the
\* stream at any length; no decoder
\* ------------------------------------------------------------------------
\* the longest such input
LongLen == 152

\* the next symbol of the run: the first symbol chooses the step to the next
\* (1 from 0, -1 from 255, 7 from 3, 101 from 128; each step is odd, so that
\* 256 symbols in a row are distinct)
LongSymbols ==
    IF input = <<>> THEN {0, 255, 3, 128}
    ELSE IF input[1] = 0 THEN {(input[Len(input)] + 1) % 256}
    ELSE IF input[1] = 255 THEN {(input[Len(input)] + 255) % 256}
    ELSE IF input[1] = 3 THEN {(input[Len(input)] + 7) % 256}
    ELSE {(input[Len(input)] + 101) % 256}

InitLong ==
    /\ InitEncoder
    /\ ehist = Unused
    /\ eshist = Unused
    /\ InitNoDecoder
    /\ dpc = "unused"
    /\ InitNoBits
    /\ InitNoTable

NextLong ==
    \/ \E symbol \in LongSymbols : Len(input) < LongLen /\ EncodeNextCall(symbol)
    \/ EncodeEndCall
    \/ EncoderLoopMatch
    \/ EncoderLoopUnderflow
    \/ EncoderLoopBreak
    \/ EncodeEndTail

SpecLong == InitLong /\ [][NextLong]_vars

\* ------------------------------------------------------------------------
\* Claims checked under SpecTable
\* ------------------------------------------------------------------------
\* C5 (model invariants): after SymbolTable::new and any increments of symbols
\* in 0..256 every count is at least 1, the cumulative count of symbol 0 is 0,
\* each cumulative count is the one before plus the count before, the last
\* cumulative count plus the last count is symbol_count, and symbol_count is
\* 257 plus the number of increments since construction.
C5_ModelInvariants ==
    /\ \A s \in 0..(MAX_SYMBOLS - 1) : tbl.table[s].count >= 1
    /\ tbl.table[0].cumulative_count = 0
    /\ \A s \in 0..(MAX_SYMBOLS - 2) :
           tbl.table[s + 1].cumulative_count
               = tbl.table[s].cumulative_count + tbl.table[s].count
    /\ tbl.table[SYMBOL_EOF].cumulative_count + tbl.table[SYMBOL_EOF].count
           = tbl.symbol_count
    /\ tbl.symbol_count = MAX_SYMBOLS + tincs

\* both ends of the alphabet have been incremented
C5_Witness ==
    /\ tincs >= 3
    /\ tbl.table[0].count >= 2
    /\ tbl.table[SYMBOL_EOF].count >= 2
    /\ tbl.table[SYMBOL_EOF].cumulative_count = SYMBOL_EOF + tincs - 1

\* ------------------------------------------------------------------------
\* Claims checked under SpecBits
\* ------------------------------------------------------------------------
\* bit k of a byte string, counting from the top bit of the first byte
PackedBit(data, k) == (data[(k \div 8) + 1] \div 2^(7 - (k % 8))) % 2 = 1

\* C7 (bit packing round trip): once the written bits b_0..b_(B-1) are flushed,
\* byte k div 8 of the output holds b_k at bit 7 - (k mod 8) and the unused low
\* bits of the last byte are 0; a BitReader over the output returns Bit(b_0),
\* ..., Bit(b_(B-1)), then Bit(false) for each padding bit, then EOF.
C7_BitPacking ==
    /\ bpc \in {"writing", "flushed", "reading"}
    /\ (bpc \in {"flushed", "reading"}) =>
           /\ 8 * Len(bw.writer.data) >= Len(wbits)
           /\ 8 * Len(bw.writer.data) < Len(wbits) + 8
           /\ \A k \in 0..(8 * Len(bw.writer.data) - 1) :
                  PackedBit(bw.writer.data, k) = (k < Len(wbits) /\ wbits[k + 1])
    /\ (bpc = "reading") =>
           \A j \in 1..Len(rres) :
               rres[j] = IF j <= Len(wbits) THEN Bit(wbits[j])
                         ELSE IF j <= 8 * Len(bw.writer.data) THEN Bit(FALSE)
                         ELSE EOF

\* a last byte with padding has been read to the end of the source
C7_Witness ==
    /\ bpc = "reading"
    /\ Len(wbits) > 8
    /\ Len(wbits) % 8 # 0
    /\ wbits[Len(wbits)]
    /\ Len(rres) = 8 * Len(bw.writer.data) + 1
    /\ rres[Len(rres)] = EOF
    /\ rres[Len(rres) - 1] = Bit(FALSE)

\* C8 (end of source): over a source of n bytes the first 8n reads return the
\* bits of the bytes, top bit first and bytes in order, never EOF; read 8n+1
\* and every later read return EOF; EOF is returned only with no bit buffered.
C8_ReaderEof ==
    (bpc = "reading") =>
        /\ \A j \in 1..Len(rres) :
               rres[j] = IF j <= 8 * Len(br.reader.data)
                         THEN Bit(PackedBit(br.reader.data, j - 1))
                         ELSE EOF
        /\ \A overflow_checks \in BOOLEAN :
               LET r == BitReader_read(overflow_checks, br)
               IN  (r.status = "Ok" /\ r.result = EOF) =>
                       (br.buffer_length = 0 /\ Len(rres) >= 8 * Len(br.reader.data))
        /\ (Len(rres) >= 1 /\ rres[Len(rres)] = EOF) => br.buffer_length = 0

\* two bytes read out and two reads past them
C8_Witness ==
    /\ bpc = "reading"
    /\ Len(br.reader.data) = 2
    /\ br.reader.data[1] # 0
    /\ Len(rres) = 18
    /\ rres[16] # EOF
    /\ rres[17] = EOF
    /\ rres[18] = EOF

\* C9 (byte count): before any flush the sink holds one byte per complete
\* group of 8 bits written; after B writes and one or more flushes it holds
\* exactly ceil(B/8) bytes, and a further flush emits nothing and leaves the
\* writer as it is.
C9_ByteCount ==
    /\ (bpc = "writing" /\ flushes = 0) =>
           /\ Len(bw.writer.data) = Len(wbits) \div 8
           /\ bw.buffer_length = Len(wbits) % 8
    /\ (flushes >= 1) =>
           /\ Len(bw.writer.data) = (Len(wbits) + 7) \div 8
           /\ bw.buffer_length = 0
           /\ bw.buffer = 0
           /\ BitWriter_flush(bw) = [status |-> "Ok", self |-> bw]

\* nine bits, flushed twice
C9_Witness ==
    /\ flushes = 2
    /\ Len(wbits) = 9
    /\ Len(bw.writer.data) = 2

\* ------------------------------------------------------------------------
\* Claims checked under SpecLong
\* ------------------------------------------------------------------------
\* C10 as stated (output length bound): the bytes emitted for N symbols and
\* encode_end are at most N + 8.
C10_LengthBound ==
    (epc = "closed") => Len(Emitted) <= Len(input) + 8

\* C10 as amended: for inputs of at most 150 symbols the bytes emitted for the
\* N symbols and encode_end are at most N + 8 (and the encoder does not fail).
C10_LengthBoundShort ==
    /\ epc \notin {"error", "panic"}
    /\ (epc = "closed" /\ Len(input) <= 150) => Len(Emitted) <= Len(input) + 8

\* 150 distinct symbols fill the bound exactly
C10_Witness ==
    /\ epc = "closed"
    /\ Len(input) = 150
    /\ Len(Emitted) = Len(input) + 8

\* ------------------------------------------------------------------------
\* SpecDecode: a caller encodes up to DamagedLen symbols and ends the stream;
\* a decoder is built over the emitted bytes as they are, cut short (down to
\* nothing), with one byte changed, or followed by other bytes, and decodes
\* ------------------------------------------------------------------------
\* the longest input of this specification
DamagedLen == 1
\* the most decode_next calls on one source
MaxDecodes == 3

\* the sources a decoder is given for the stream `data`
Damaged(data) ==
    {SubSeq(data, 1, k) : k \in 0..Len(data)}
        \cup {[data EXCEPT ![i] = 255 - @] : i \in 1..Len(data)}
        \cup {[data EXCEPT ![i] = 0] : i \in 1..Len(data)}
        \cup {data \o <<165, 90, 60, 195>>}

\* Decoder::new over any source
DecoderNewOver(source) ==
    /\ epc = "closed"
    /\ dpc = "none"
    /\ dec' = DecoderNew(SourceNew(source))
    /\ dpc' = "open"
    /\ dreads' = DecoderNewCounted(SourceNew(source)).reads
    /\ UNCHANGED <<dsym, output, diters, encoderVars, bitVars, tableVars>>

\* the caller of any source decodes up to MaxDecodes symbols
DecodeNextMore ==
    /\ Len(output) < MaxDecodes
    /\ DecodeNextEnter

NextDecode ==
    \/ \E symbol \in SymbolChoices : Len(input) < DamagedLen /\ EncodeNextCall(symbol)
    \/ EncodeEndCall
    \/ EncoderLoopMatch
    \/ EncoderLoopUnderflow
    \/ EncoderLoopBreak
    \/ EncodeEndTail
    \/ \E source \in Damaged(Emitted) : DecoderNewOver(source)
    \/ DecodeNextMore
    \/ DecoderLoopMatch
    \/ DecoderLoopUnderflow
    \/ DecoderLoopBreak

SpecDecode == Init /\ [][NextDecode]_vars

\* ------------------------------------------------------------------------
\* Claims checked under SpecDecode
\* ------------------------------------------------------------------------
\* 2^k for k in 0..74
Pow2Big(k) == [i \in 1..5 |-> IF i = (k \div 15) + 1 THEN 2^(k % 15) ELSE 0]

\* after k iterations of a renormalization loop the interval holds at least
\* 2^k values (every iteration doubles high - low + 1)
Widened(self, k) == BigLeq(Pow2Big(k), RangeOf(self))

\* the decoder's source is not the stream the encoder emitted
DamagedSource == dec.bit_reader.reader.data # Emitted

\* C11 (termination): no encode_next and no decode_next call enters more than
\* 32 iterations of its renormalization loop (so no more than 2*32), whatever
\* bytes the decoder's source holds; the reason is that each iteration doubles
\* the width of the interval, which never exceeds 2^32.
C11_Termination ==
    /\ eiters <= 32
    /\ diters <= 32
    /\ NoFailure
    /\ (epc = "loop") => Widened(enc, eiters)
    /\ (dpc = "loop") => Widened(dec, diters)

\* a decoder of a stream cut short is eight iterations into a loop, as the
\* encoder was in its last call
C11_Witness ==
    /\ dpc = "loop"
    /\ Len(dec.bit_reader.reader.data) < Len(Emitted)
    /\ diters >= 8
    /\ eiters >= 8

\* low <= code <= high
CodeInside(self) == BigLeq(self.low, self.code) /\ BigLeq(self.code, self.high)

\* C14 (decoder code invariant): for every source, low <= code <= high holds
\* after Decoder::new, after every narrowing and after every iteration of the
\* loop of decode_next, and between the near-midpoint branch and the shifts;
\* no decode_next fails on code - low + 1 or on code -= 0x40000000, which is
\* only reached with 0x40000000 <= code.
C14_CodeInside ==
    Decoding =>
        /\ dpc # "panic"
        /\ CodeInside(dec)
        /\ (dpc = "open") =>
               \A overflow_checks \in BOOLEAN :
                   CodeInside(calculate_code_range(overflow_checks, dec).self)
        /\ (dpc = "loop" /\ LoopBranch(dec) = "underflow") =>
               /\ BigLeq(X40000000, dec.code)
               /\ CodeInside(DecoderUnderflowBranch(dec))

\* a decoder of a source that is not the emitted stream is about to subtract
\* 0x40000000 from its code, for its second symbol or later
C14_Witness ==
    /\ dpc = "loop"
    /\ DamagedSource
    /\ Len(output) >= 1
    /\ LoopBranch(dec) = "underflow"
    /\ CodeInside(dec)
    /\ diters >= 1

\* cumulative(s) <= v < cumulative(s) + count(s)
HoldsValue(table, s, v) ==
    /\ BigLeq(Nat2Big(table[s].cumulative_count), v)
    /\ BigLess(v, Nat2Big(table[s].cumulative_count + table[s].count))

\* C15 (inverse lookup): in every decode_next call, whatever the source, the
\* scaled value v = ((code - low + 1) * T - 1) / range is below T, the scan
\* from 256 down stops at a symbol in 0..256, and that symbol is the only one
\* with cumulative(s) <= v < cumulative(s) + count(s); it is the symbol the
\* call narrows to.
C15_InverseLookup ==
    (dpc = "open") =>
        LET v == ScaledValue(FALSE, dec).temp
            found == FindSymbol(dec)
        IN  /\ ScaledValue(TRUE, dec) = [status |-> "Ok", temp |-> v]
            /\ BigLess(v, Nat2Big(dec.symbols.symbol_count))
            /\ found \in 0..(MAX_SYMBOLS - 1)
            /\ \A s \in 0..(MAX_SYMBOLS - 1) :
                   HoldsValue(dec.symbols.table, s, v) <=> (s = found)
            /\ \A overflow_checks \in BOOLEAN :
                   LET call == calculate_code_range(overflow_checks, dec)
                   IN  call.status = "Ok" /\ call.symbol = found

\* a decoder of a source that is not the emitted stream has just found a
\* symbol strictly inside the alphabet for its second call or later
C15_Witness ==
    /\ dpc = "loop"
    /\ diters = 0
    /\ DamagedSource
    /\ Len(output) >= 1
    /\ dsym \in 1..255

\* byte i of a source, 255 (eight 1-bits) past its end
ByteOr255(data, i) == IF i <= Len(data) THEN data[i] ELSE 255

\* the first 32 bits of a source, first byte on top, 1-bits past its end
First32(data) ==
    U32(256 * ByteOr255(data, 1) + ByteOr255(data, 2),
        256 * ByteOr255(data, 3) + ByteOr255(data, 4))

\* Decoder::new has returned and decode_next has not been called
FreshDecoder == dpc = "open" /\ output = <<>>

\* C18 (decoder prefill): Decoder::new returns a decoder with low = 0,
\* high = 0xFFFFFFFF, the model of SymbolTable::new (total 257) and code equal
\* to the first 32 bits of the source, top bit first, with a 1 for every
\* position past the end of the source; it has made 32 reads and taken
\* exactly min(4, length of the source) bytes, none of them left in the buffer.
C18_Prefill ==
    FreshDecoder =>
        /\ dec.low = BigZero
        /\ dec.high = U32(65535, 65535)
        /\ dec.symbols = SymbolTableNew
        /\ dec.symbols.symbol_count = 257
        /\ dec.code = First32(dec.bit_reader.reader.data)
        /\ dreads = 32
        /\ dec.bit_reader.reader.pos
               = IF Len(dec.bit_reader.reader.data) < 4
                 THEN Len(dec.bit_reader.reader.data) ELSE 4
        /\ dec.bit_reader.buffer_length = 0

\* a decoder constructed over three bytes, the top one not 255
C18_Witness ==
    /\ FreshDecoder
    /\ Len(dec.bit_reader.reader.data) = 3
    /\ dec.bit_reader.reader.pos = 3
    /\ dec.bit_reader.reader.data[1] # 255
    /\ dec.code = First32(dec.bit_reader.reader.data)
    /\ dec.code[1] % 256 = 255

\* ------------------------------------------------------------------------
\* SpecMid: a caller keeps encoding the symbol whose interval holds the middle
\* of the encoder's interval, so that the near-midpoint branch is taken in
\* every iteration, and ends the stream at any length; no decoder
\* ------------------------------------------------------------------------
\* the longest such input
MidLen == 12

X7FFFFFFF == U32(32767, 65535)

\* the symbol whose interval holds 0x7FFFFFFF: the one a decoder with that
\* code would find
MidSymbol(self) ==
    FindSymbol([high |-> self.high, low |-> self.low, code |-> X7FFFFFFF,
                symbols |-> self.symbols])

\* the interval of symbol holds 0x7FFFFFFF and 0x80000000
HoldsMiddle(self, symbol) ==
    \A overflow_checks \in BOOLEAN :
        LET n == calculate_symbol_range(overflow_checks, self, symbol)
        IN  /\ n.status = "Ok"
            /\ BigLeq(n.self.low, X7FFFFFFF)
            /\ BigLeq(X80000000, n.self.high)

\* the next symbol of the input, if a byte holds the middle
MidSymbols ==
    IF epc = "open" /\ MidSymbol(enc) < SYMBOL_EOF /\ HoldsMiddle(enc, MidSymbol(enc))
    THEN {MidSymbol(enc)}
    ELSE {}

NextMid ==
    \/ \E symbol \in MidSymbols : Len(input) < MidLen /\ EncodeNextCall(symbol)
    \/ EncodeEndCall
    \/ EncoderLoopMatch
    \/ EncoderLoopUnderflow
    \/ EncoderLoopBreak
    \/ EncodeEndTail

SpecMid == InitLong /\ [][NextMid]_vars

\* ------------------------------------------------------------------------
\* SpecDeep: SpecMid, started from a new encoder or from the encoder that a
\* long input of such bytes leaves: encode_next(2), encode_next(136), and then
\* 141887 calls, each with the byte whose interval holds the middle of the
\* encoder's interval at that moment (150, 209, 108, 183, 128, 146, ...). All
\* 141889 calls have returned Ok and have written 14 bits between them.
\* ------------------------------------------------------------------------
\* the count of each symbol, 0 to 256, after those calls
DeepCounts ==
    <<21, 449, 1775, 463, 371, 1452, 765, 1304, 595, 428, 860, 1365, 243,
      724, 527, 125, 259, 74, 637, 111, 249, 659, 47, 2739, 1342, 600, 61,
      2163, 142, 1351, 36, 525, 238, 240, 284, 52, 990, 32, 117, 39, 231,
      2370, 221, 6, 141, 173, 164, 29, 788, 45, 151, 494, 60, 672, 362, 6,
      362, 1003, 961, 79, 262, 804, 1851, 35, 549, 35, 51, 499, 363, 1989,
      522, 3494, 121, 245, 1283, 503, 241, 202, 470, 868, 221, 556, 287,
      163, 524, 742, 172, 826, 731, 395, 242, 738, 298, 803, 170, 437, 293,
      390, 162, 79, 948, 55, 2237, 49, 298, 444, 54, 482, 856, 93, 566, 102,
      271, 181, 516, 691, 1124, 5, 871, 848, 458, 88, 1128, 324, 397, 138,
      1458, 635, 1851, 1647, 1278, 1119, 1368, 78, 689, 369, 976, 140, 82,
      858, 184, 198, 38, 69, 31, 184, 1042, 102, 415, 466, 2046, 568, 635,
      778, 857, 454, 260, 106, 637, 18, 695, 552, 490, 88, 412, 117, 10,
      1075, 528, 149, 84, 516, 727, 39, 1674, 290, 26, 876, 402, 16, 294,
      47, 58, 653, 417, 1332, 255, 287, 274, 268, 566, 614, 338, 72, 826,
      70, 406, 99, 15, 1736, 52, 535, 448, 681, 1404, 731, 680, 5, 358,
      1019, 497, 820, 480, 1682, 540, 8, 601, 756, 866, 841, 487, 68, 9,
      780, 881, 618, 168, 334, 1799, 556, 552, 623, 900, 1362, 569, 439, 65,
      2398, 571, 571, 1315, 1126, 1935, 106, 539, 87, 378, 389, 154, 559,
      39, 500, 245, 39, 275, 64, 1>>

\* the encoder after those calls, over a buffer of two bytes of which the one
\* byte emitted so far takes the first
DeepEncoder ==
    [high |-> U32(56408, 42751), low |-> U32(6181, 63488), underflow |-> 1048581,
     symbols |-> [symbol_count |-> 142146,
                  table |-> CumulativeLoop(
                                [i \in 0..(MAX_SYMBOLS - 1) |-> Symbol(0, DeepCounts[i + 1])],
                                0, MAX_SYMBOLS - 1)],
     bit_writer |-> [writer |-> [data |-> <<2>>, capacity |-> 2, full |-> "short"],
                     buffer_length |-> 6, buffer |-> 132]]

InitDeep ==
    /\ \/ enc = EncoderNew(SinkNew(OUTPUT_LEN)) /\ eshifts = 0
       \/ enc = DeepEncoder /\ eshifts = 1048595
    /\ epc = "open"
    /\ ecall = "none"
    /\ esym = 0
    /\ input = <<>>
    /\ eiters = 0
    /\ ehist = Unused
    /\ eshist = Unused
    /\ InitNoDecoder
    /\ dpc = "unused"
    /\ InitNoBits
    /\ InitNoTable

SpecDeep == InitDeep /\ [][NextMid]_vars

\* ------------------------------------------------------------------------
\* Claims checked under SpecDeep
\* ------------------------------------------------------------------------
\* C12 as stated (underflow bound): once the encoder's underflow counter
\* exceeds its bound, 2^20, the encode operation has aborted with an error
\* that is not an I/O error: the encoder is neither running nor returned
\* normally nor failed on a write.
C12_UnderflowBound ==
    (enc.underflow > 2^20) => epc = "panic"

\* ------------------------------------------------------------------------
\* SpecShort: a caller encodes up to ShortLen symbols and ends the stream,
\* into a sink that takes at most SinkLen bytes and then either takes no byte
\* (Ok(0)) or returns an I/O error; no decoder
\* ------------------------------------------------------------------------
\* the longest input of this specification
ShortLen == 2
\* the largest sink
SinkLen == 2

\* the sinks tried
ShortSinks ==
    {SinkNew(capacity) : capacity \in 0..SinkLen}
        \cup {SinkNewFailing(capacity) : capacity \in 0..SinkLen}

InitShort ==
    /\ enc \in {EncoderNew(writer) : writer \in ShortSinks}
    /\ epc = "open"
    /\ ecall = "none"
    /\ esym = 0
    /\ input = <<>>
    /\ eiters = 0
    /\ eshifts = 0
    /\ ehist = Unused
    /\ eshist = Unused
    /\ InitNoDecoder
    /\ dpc = "unused"
    /\ InitNoBits
    /\ InitNoTable

NextShort ==
    \/ \E symbol \in SymbolChoices : Len(input) < ShortLen /\ EncodeNextCall(symbol)
    \/ EncodeEndCall
    \/ EncoderLoopMatch
    \/ EncoderLoopUnderflow
    \/ EncoderLoopBreak
    \/ EncodeEndTail

SpecShort == InitShort /\ [][NextShort]_vars

\* ------------------------------------------------------------------------
\* Claims checked under SpecShort
\* ------------------------------------------------------------------------
\* the bits a bit writer has taken, in order: those of the bytes in its sink,
\* then those in its buffer
BitsOf(w) ==
    [k \in 1..(8 * Len(w.writer.data) + w.buffer_length) |->
        IF k <= 8 * Len(w.writer.data)
        THEN PackedBit(w.writer.data, k - 1)
        ELSE (w.buffer \div 2^(7 - (k - 1 - 8 * Len(w.writer.data)))) % 2 = 1]

\* n copies of the bit b
Copies(b, n) == [i \in 1..n |-> b]

\* what an iteration through the MSB branch has to write: the MSB of low and
\* `underflow` copies of its complement
MatchBits(self) ==
    <<BitAnd(self.low, X80000000) = X80000000>>
        \o Copies(BitAnd(self.low, X80000000) # X80000000, self.underflow)

\* what the tail of encode_end has to write: bit 30 of low and underflow + 1
\* copies of its complement
TailBits(self) ==
    <<BitAnd(self.low, X40000000) = X40000000>>
        \o Copies(BitAnd(self.low, X40000000) # X40000000, self.underflow + 1)

\* the number of the write at which the sink of w is first offered a byte it
\* has no room for
Room(w) == 8 * (w.writer.capacity - Len(w.writer.data)) + 8 - w.buffer_length

\* the step from self to next wrote the first j bits of want and nothing else,
\* and did not shift
WroteOnly(self, next, want, j) ==
    /\ BitsOf(next.bit_writer) = BitsOf(self.bit_writer) \o SubSeq(want, 1, j)
    /\ next.low = self.low
    /\ next.high = self.high

\* C13 (short write), for one step of the encoder: a step that has to write
\* `want` fails exactly when the sink is offered a byte it has no room for
\* (whether it then takes nothing or returns an I/O error); the failing call
\* has written the bits up to the one that completed that byte and no more,
\* keeps the byte in the buffer, has not shifted low and high, and has counted
\* down underflow only for the copies whose write succeeded.
ShortWriteStep ==
    /\ (epc = "loop" /\ LoopBranch(enc) = "match" /\ Len(MatchBits(enc)) >= Room(enc.bit_writer)) =>
           /\ epc' = "error"
           /\ WroteOnly(enc, enc', MatchBits(enc), Room(enc.bit_writer))
           /\ enc'.bit_writer.buffer_length = 8
           /\ enc'.underflow = IF Room(enc.bit_writer) = 1 THEN enc.underflow
                                ELSE enc.underflow - (Room(enc.bit_writer) - 2)
    /\ (epc = "tail" /\ Len(TailBits(enc)) >= Room(enc.bit_writer)) =>
           /\ epc' = "error"
           /\ WroteOnly(enc, enc', TailBits(enc), Room(enc.bit_writer))
           /\ enc'.bit_writer.buffer_length = 8
           /\ enc'.underflow = enc.underflow + 1 - (Room(enc.bit_writer) - 1)
    /\ (epc = "tail" /\ Len(TailBits(enc)) < Room(enc.bit_writer)
           /\ Len(TailBits(enc)) + 8 > Room(enc.bit_writer)
           /\ (enc.bit_writer.buffer_length + Len(TailBits(enc))) % 8 # 0) =>
           /\ epc' = "error"
           /\ WroteOnly(enc, enc', TailBits(enc), Len(TailBits(enc)))
           /\ enc'.underflow = 0
    /\ (epc' = "error") =>
           /\ epc \in {"loop", "tail"}
           /\ Len(enc'.bit_writer.writer.data) = enc'.bit_writer.writer.capacity
           /\ enc'.bit_writer.buffer_length > 0
           /\ epc = "loop" => Len(MatchBits(enc)) >= Room(enc.bit_writer)
           /\ epc = "tail" => Len(TailBits(enc)) + 8 > Room(enc.bit_writer)

C13_ShortWrite == [][ShortWriteStep]_vars

\* encode_end has failed in the middle of its copies of the complement bit, on
\* a sink that took no byte
C13_Witness ==
    /\ epc = "error"
    /\ enc.bit_writer.writer.full = "short"
    /\ enc.bit_writer.buffer_length = 8
    /\ enc.underflow > 0
    /\ esym = SYMBOL_EOF

\* ------------------------------------------------------------------------
\* Claims checked under SpecMid: the bits the encoder writes
\* ------------------------------------------------------------------------
\* C16 (encoder emission order), for one step of the encoder: an iteration
\* through the MSB branch writes the MSB that low and high share, then
\* `underflow` copies of its complement and nothing else, leaves underflow at
\* 0, and only then shifts low and high (the bits written are those of the
\* unshifted low); an iteration through the near-midpoint branch writes no bit
\* and adds exactly 1 to underflow.
EmissionStep ==
    /\ (epc = "loop" /\ LoopBranch(enc) = "match") =>
           /\ epc' = "loop"
           /\ BitsOf(enc'.bit_writer) = BitsOf(enc.bit_writer) \o MatchBits(enc)
           /\ enc'.underflow = 0
           /\ enc'.low = Shl1(enc.low)
           /\ enc'.high = BitOr(Shl1(enc.high), BigOne)
    /\ (epc = "loop" /\ LoopBranch(enc) = "underflow") =>
           /\ epc' = "loop"
           /\ enc'.bit_writer = enc.bit_writer
           /\ enc'.underflow = enc.underflow + 1

C16_EmissionOrder == [][EmissionStep]_vars

\* the first iteration of encode_end has written a 1 and then more than
\* sixteen 0s, the underflow bits pending from the symbols before, and
\* nothing was written before it
C16_Witness ==
    /\ epc = "loop"
    /\ esym = SYMBOL_EOF
    /\ eiters = 1
    /\ enc.underflow = 0
    /\ Len(BitsOf(enc.bit_writer)) > 17
    /\ Len(BitsOf(enc.bit_writer)) = eshifts
    /\ BitsOf(enc.bit_writer)[1]
    /\ \A k \in 2..Len(BitsOf(enc.bit_writer)) : ~BitsOf(enc.bit_writer)[k]

\* C17 (finalize tail), for the step of encode_end that follows its
\* encode_next(256) (the call is encode_end, the symbol it has encoded is 256,
\* and no call but encode_end gets here): with u the underflow count at that
\* moment its writes take the bits written from their number n to n + u + 2,
\* adding bit 30 of low and then u + 1 copies of its complement; the flush
\* that follows leaves underflow at 0, the buffer of the bit writer empty, and
\* the last, partly filled byte in the sink with zeros in its unused bits.
TailStep ==
    (epc = "tail") =>
        LET before == BitsOf(enc.bit_writer)
            all == before \o TailBits(enc)
            after == BitsOf(enc'.bit_writer)
        IN  /\ epc' = "closed"
            /\ ecall = "encode_end"
            /\ esym = SYMBOL_EOF
            /\ enc.symbols.table[SYMBOL_EOF].count = 2
            /\ \A overflow_checks \in BOOLEAN :
                   LET t == EncoderTailWrites(overflow_checks, enc)
                   IN  /\ t.status = "Ok"
                       /\ Len(BitsOf(t.self.bit_writer)) = Len(before) + enc.underflow + 2
                       /\ BitsOf(t.self.bit_writer) = all
                       /\ t.self.underflow = 0
            /\ Len(after) = 8 * ((Len(all) + 7) \div 8)
            /\ \A k \in 1..Len(after) : after[k] = (k <= Len(all) /\ all[k])
            /\ Len(enc'.bit_writer.writer.data) = (Len(all) + 7) \div 8
            /\ enc'.underflow = 0
            /\ enc'.bit_writer.buffer_length = 0
            /\ enc'.bit_writer.buffer = 0
            /\ enc'.low = enc.low
            /\ enc'.high = enc.high

C17_FinalizeTail == [][TailStep]_vars

\* encode_end after 128, 128, 128, 128, 132: the tail was entered with 42 bits
\* written and underflow = 1, and wrote 0, 1, 1 (bits 43 to 45); three zeros
\* fill the sixth byte
C17_Witness ==
    /\ epc = "closed"
    /\ input = <<128, 128, 128, 128, 132>>
    /\ eshifts = 43
    /\ Emitted = <<128, 0, 0, 0, 18, 152>>
    /\ enc.underflow = 0
    /\ enc.bit_writer.buffer_length = 0

\* ------------------------------------------------------------------------
\* SpecErr: Spec with sinks that refuse a byte. A caller encodes up to ErrLen
\* symbols and ends the stream, into an OUTPUT_LEN buffer or into a sink that
\* takes up to ErrSinkLen bytes and then either takes no byte (Ok(0)) or
\* returns an I/O error; a decoder is built over the bytes of a finished
\* stream and decodes them
\* ------------------------------------------------------------------------
\* the longest input of this specification
ErrLen == 2
\* the largest of its small sinks
ErrSinkLen == 1

\* the sinks tried
ErrSinks ==
    {SinkNew(OUTPUT_LEN)}
        \cup {SinkNew(capacity) : capacity \in 0..ErrSinkLen}
        \cup {SinkNewFailing(capacity) : capacity \in 0..ErrSinkLen}

InitErr ==
    /\ enc \in {EncoderNew(writer) : writer \in ErrSinks}
    /\ epc = "open"
    /\ ecall = "none"
    /\ esym = 0
    /\ input = <<>>
    /\ eiters = 0
    /\ eshifts = 0
    /\ ehist = <<Snapshot(enc)>>
    /\ eshist = <<0>>
    /\ InitNoDecoder
    /\ dpc = "none"
    /\ InitNoBits
    /\ InitNoTable

NextErr ==
    \/ \E symbol \in SymbolChoices : Len(input) < ErrLen /\ EncodeNextCall(symbol)
    \/ EncodeEndCall
    \/ EncoderLoopMatch
    \/ EncoderLoopUnderflow
    \/ EncoderLoopBreak
    \/ EncodeEndTail
    \/ \E tail \in Tails : DecoderNewCall(tail)
    \/ DecodeNextCall
    \/ DecoderLoopMatch
    \/ DecoderLoopUnderflow
    \/ DecoderLoopBreak

SpecErr == InitErr /\ [][NextErr]_vars

\* ------------------------------------------------------------------------
\* Claims checked under SpecErr: the interval between calls
\* ------------------------------------------------------------------------
\* the caller's encode_next has returned the error of a write
EncodeNextFailed == epc = "error" /\ ecall = "encode_next"

\* bit 31 of a u32
Msb(a) == BitAnd(a, X80000000) = X80000000

\* bit 30 of a u32
Bit30(a) == BitAnd(a, X40000000) = X40000000

\* low and high as a finished renormalization leaves them
Renormalized(self) ==
    /\ ~Msb(self.low)
    /\ Msb(self.high)
    /\ ~(Bit30(self.low) /\ ~Bit30(self.high))
    /\ BigLeq(Pow2Big(30), BigSub(self.high, self.low))
    /\ (self.symbols.symbol_count < 2^30
           => BigLess(Nat2Big(self.symbols.symbol_count), RangeOf(self)))

\* C20 as amended (post-renormalization state): initially and whenever
\* encode_next or decode_next has returned Ok (to the caller, or encode_next
\* to encode_end, and from then on), the top bit of low is 0, the top bit of
\* high is 1, and it is not the case that bit 30 of low is 1 while bit 30 of
\* high is 0; hence high - low >= 2^30 and the range of the next narrowing is
\* larger than a model total below 2^30.
C20_PostRenormalization ==
    /\ (epc \in {"open", "tail", "closed"}) => Renormalized(enc)
    /\ (dpc = "open") => Renormalized(dec)

\* C20 as stated: the same whenever encode_next or decode_next has returned,
\* the return of encode_next with the error of a write included.
C20_EveryReturn ==
    /\ (epc \in {"open", "tail", "closed"} \/ EncodeNextFailed) => Renormalized(enc)
    /\ (dpc = "open") => Renormalized(dec)

\* decode_next has returned its second symbol or a later one after iterations
\* of its loop, with bit 30 of low equal to bit 30 of high; the encoder has
\* returned from every call
C20_Witness ==
    /\ dpc = "open" /\ Len(output) >= 2 /\ diters >= 1
    /\ Bit30(dec.low) = Bit30(dec.high)
    /\ epc = "closed" /\ eshifts >= 8
    /\ Renormalized(dec) /\ Renormalized(enc)

\* ------------------------------------------------------------------------
\* Claims checked under SpecErr: bits and shifts
\* ------------------------------------------------------------------------
\* the number of bits written to the encoder's BitWriter so far
BitsWritten(self) ==
    8 * Len(self.bit_writer.writer.data) + self.bit_writer.buffer_length

\* C21 as amended (bit accounting): whenever encode_next has returned Ok, the
\* bits written to the BitWriter so far plus underflow equal the shifts the
\* encoder has performed so far; a decoder over a finished stream that has returned
\* from its k-th decode_next has made 32 reads of its BitReader plus as many as
\* the encoder had performed shifts when its k-th encode_next returned, one
\* read for each iteration of its loop.
C21_BitAccounting ==
    /\ (epc \in {"open", "tail"}) =>
           /\ BitsWritten(enc) + enc.underflow = eshifts
           /\ eshist[Len(eshist)] = eshifts
    /\ (dpc = "open") => dreads = 32 + eshist[Len(output) + 1]
    /\ (dpc = "loop") =>
           /\ dreads = 32 + eshist[Len(output) + 1] + diters
           /\ LoopBranch(dec) # "break" =>
                  \A overflow_checks \in BOOLEAN : ReadsBit(overflow_checks, dec)

\* C21 as stated: the same at every return of encode_next, the return with the
\* error of a write included.
C21_EveryReturn ==
    /\ C21_BitAccounting
    /\ EncodeNextFailed => BitsWritten(enc) + enc.underflow = eshifts

\* the decoder has returned the end of the stream after two symbols or more,
\* its last call with iterations of the loop, over the stream of an encoder
\* whose last encode_next shifted
C21_Witness ==
    /\ dpc = "open" /\ Len(output) = Len(input) + 1 /\ Len(input) >= 2
    /\ diters >= 1
    /\ dreads = 32 + eshist[Len(output) + 1]
    /\ eshist[Len(output) + 1] > eshist[Len(output)]
    /\ eshist[Len(output) + 1] = eshifts
    /\ epc = "closed"

\* ------------------------------------------------------------------------
\* SpecWide: coders far into a long input. The caller has passed the byte 128
\* to encode_next again and again, which takes the model total up to 2^30 - 1;
\* the specification starts from the encoder as a number of those calls leave
\* it, or from a decoder that has returned from as many decode_next calls, or
\* from a new encoder, and goes on from there with any of the symbols of
\* WideChoices. `input`, `output`, `ehist` and `eshist` record what happens
\* from the start of the specification on.
\* ------------------------------------------------------------------------
\* the most encode_next calls the caller adds
WideLen == 2
\* the most decode_next calls the caller adds
WideDecodes == 3

\* the symbols the caller goes on with: the two ends of the byte range, the
\* repeated byte, and the last symbol of the table, which encode_next takes
\* like any other
WideChoices == {0, 128, 255, SYMBOL_EOF}

\* the table after SymbolTable::new and k calls increment_symbol(symbol)
Repeated(symbol, k) ==
    [symbol_count |-> MAX_SYMBOLS + k,
     table |-> [i \in 0..(MAX_SYMBOLS - 1) |->
                   Symbol(IF i <= symbol THEN i ELSE i + k,
                          IF i = symbol THEN 1 + k ELSE 1)]]

\* the first bytes an encoder over an OUTPUT_LEN buffer emits for the byte 128
\* passed 1073741566 times; after fewer calls it has emitted fewer of them
WideBytes ==
    <<127, 255, 255, 255, 127, 126, 251, 239, 189, 239, 123, 189, 238, 247,
      110, 247, 110, 221, 187, 183, 107, 182, 221, 181, 186, 219, 106, 218,
      218, 217, 181, 107, 86, 106, 213, 89, 90, 170, 170, 153, 117, 74, 165,
      82, 148, 165, 73, 105, 41, 18, 145, 18, 81, 17, 34, 32, 160, 226, 60,
      64, 202, 3, 135, 128, 76, 0, 8, 252, 3, 255, 199, 247, 119, 189, 235,
      171, 229, 106, 181, 114, 150, 90, 214, 45, 85, 90, 86, 42, 82, 84, 80,
      36, 36, 31, 135, 64, 61, 251, 236, 253, 221, 221, 83, 170, 170, 141,
      179, 171, 86, 4, 231, 40, 147, 252, 231, 43, 135, 179, 148, 250, 37,
      74, 49, 4, 10, 83, 223, 235, 78, 93, 126, 120, 37, 137, 64, 219, 47,
      202, 117, 10, 212, 186, 114, 241, 172, 50, 85, 104, 115, 191, 121,
      158, 218, 147, 163, 221, 250, 190, 39, 37, 136, 67, 221, 155, 156,
      155, 252, 43, 173, 161, 187, 179, 181, 104, 58, 31, 61, 141, 12, 158,
      11, 41, 3, 118, 17, 127, 153, 118, 147, 138, 177, 204, 26, 97, 181,
      23, 35, 171, 105, 150, 182, 160, 211, 168, 81, 135, 230, 100, 157, 95,
      147, 96, 50, 238, 165, 139, 138, 243, 240, 185, 96, 210, 165, 61, 56,
      7, 109, 204, 57, 241, 173, 30, 13, 57, 129, 210, 53, 178, 162, 188,
      208, 102, 52, 41, 49, 101, 105, 245, 114, 183, 67, 24, 91, 134, 90,
      208, 139, 103, 221, 134, 134, 228, 64, 125, 151, 93, 233, 78, 8, 231,
      211, 228, 10, 112, 20, 176, 55, 223, 135, 58, 91, 184, 24, 190, 37,
      173, 136, 77, 223, 195, 98, 158, 183, 81, 181, 36, 146, 180, 94, 103,
      35, 252, 176, 34, 82, 205, 247, 50, 253, 52, 27, 119, 90, 29, 39, 74,
      15, 31, 158, 193, 0, 61, 78, 252, 55, 166, 204, 118, 27, 61, 197, 110,
      222, 68, 250, 194, 229, 105, 203, 0, 128, 37, 250, 190, 205, 220, 249,
      1, 252, 32, 79, 107, 250, 51, 150, 60, 2, 73, 13, 17, 61, 147, 79,
      177, 120, 135, 122, 37, 4, 243, 111, 189, 79, 191, 145, 168, 243, 163,
      50, 71, 217, 175, 133, 51, 71, 32, 222, 109, 175, 129, 168, 182, 42,
      36, 244, 62, 13, 150, 183, 172, 144, 97, 166, 103, 133, 240, 176, 254,
      168, 238, 127, 147, 199, 34, 250, 214, 62, 78, 10, 33, 1, 199, 153,
      13, 241, 122, 238, 6, 12, 212, 252, 242, 157, 211, 18, 115, 229, 59,
      125, 220, 200, 100, 55, 33, 176, 64, 17, 146, 105, 205, 138, 216, 238,
      33, 231, 195, 113, 163, 129, 118, 11, 210, 17, 2, 31, 65, 16, 137, 46,
      236, 127, 168, 42, 207, 58, 7, 197, 133, 24, 145, 126, 251, 169, 152,
      196, 80, 217, 47, 232, 122, 196, 224, 169, 237, 190, 197, 145, 62, 44,
      9, 70, 222, 137, 201, 61, 236, 129, 130, 140, 80, 44, 219, 92, 245,
      97, 94, 195, 13, 21, 68, 216, 229, 62, 164, 143, 255, 25, 230, 70,
      136, 59, 190, 180, 105, 164, 188, 192, 227, 172, 246, 26, 118, 212,
      113, 60, 30, 187, 143, 243, 154, 17, 144, 205, 168, 210, 123, 63, 45,
      59, 44, 197, 247, 55, 1, 91, 215, 115, 14, 101, 96, 34, 122, 15, 115,
      227, 57, 223, 181, 62, 221, 176, 52, 207, 29, 24, 19, 239, 23, 227,
      63, 172, 43, 80, 194, 212, 72, 99, 67, 145, 77, 166, 113, 57, 224, 52,
      113, 224, 25, 252, 106, 117, 80, 151, 55, 4, 66, 95, 108, 101, 80, 23,
      188, 245, 149, 133, 98, 152, 202, 9, 47, 62, 171, 162, 203, 127, 164,
      151, 169, 220, 246, 49, 167, 214, 130, 131, 236, 220, 91, 199, 123,
      184, 131, 165, 144, 65, 201, 99, 33, 235, 34, 62, 51, 3, 128, 228, 37,
      150, 99, 247, 197, 39, 5, 234, 110, 151, 17, 146, 103, 48, 252, 129,
      98, 176, 188, 165, 27, 73, 34, 190, 161, 24, 75, 68, 11, 110, 119, 8,
      143, 60, 112, 112, 177, 55, 35, 45, 214, 26, 158, 24, 141, 137, 218,
      91, 37, 149, 213, 213, 47, 229, 130, 199, 194, 143, 44, 159, 140, 29,
      235, 76, 4, 245, 91, 180, 149, 120, 98, 131, 46, 85, 158, 68, 12, 109,
      104, 81, 62, 28, 150, 217>>

\* the encoder after `calls` calls encode_next(128): low, high, underflow, the
\* number of bytes in its sink, its bit buffer, and the shifts it has made.
\* The totals are 535402069 (the range of this encoder is 2.02 times its
\* total), 536870912 = 2^29, 554525569 (the first of these encoders whose
\* range is below twice its total), 1072693249 (range 2751317829) and
\* 1073741823 = 2^30 - 1.
WideEncoders ==
    {[calls |-> 535401812, low |-> U32(16289, 43055), high |-> U32(32768, 67), underflow |-> 0,
      bytes |-> 717, buffer_length |-> 1, buffer |-> 0, shifts |-> 5737],
     [calls |-> 536870655, low |-> U32(16224, 22318), high |-> U32(48911, 33473), underflow |-> 0,
      bytes |-> 717, buffer_length |-> 3, buffer |-> 32, shifts |-> 5739],
     [calls |-> 554525312, low |-> U32(16299, 16581), high |-> U32(33222, 1592), underflow |-> 0,
      bytes |-> 718, buffer_length |-> 6, buffer |-> 228, shifts |-> 5750],
     [calls |-> 1072692992, low |-> U32(661, 23987), high |-> U32(42643, 9463), underflow |-> 1,
      bytes |-> 749, buffer_length |-> 2, buffer |-> 0, shifts |-> 5995],
     [calls |-> 1073741566, low |-> U32(5298, 33671), high |-> U32(37989, 65317), underflow |-> 1,
      bytes |-> 749, buffer_length |-> 2, buffer |-> 0, shifts |-> 5995]}

\* a decoder that has returned from `calls` calls of decode_next, each with the
\* byte 128. Its source is the stream of an encoder that went on, after as
\* many encode_next(128), with encode_end, with encode_next(0) and encode_end,
\* or with encode_next(255) and encode_end: the first `bytes` bytes of
\* WideBytes followed by `tail`.
WideDecoders ==
    {[calls |-> 1072692992, low |-> U32(661, 23987), high |-> U32(42643, 9463), code |-> U32(42643, 9462),
      bytes |-> 749, tail |-> <<36, 210, 100, 158, 192>>,
      pos |-> 754, buffer_length |-> 5, buffer |-> 192, reads |-> 6027],
     [calls |-> 1072692992, low |-> U32(661, 23987), high |-> U32(42643, 9463), code |-> U32(661, 23988),
      bytes |-> 749, tail |-> <<16, 82, 171, 182, 159, 255, 255, 255, 0>>,
      pos |-> 754, buffer_length |-> 5, buffer |-> 159, reads |-> 6027],
     [calls |-> 1072692992, low |-> U32(661, 23987), high |-> U32(42643, 9463), code |-> U32(42643, 9460),
      bytes |-> 749, tail |-> <<36, 210, 100, 158, 159, 255, 255, 254, 128>>,
      pos |-> 754, buffer_length |-> 5, buffer |-> 159, reads |-> 6027],
     [calls |-> 1073741566, low |-> U32(5298, 33671), high |-> U32(37989, 65317), code |-> U32(37989, 65316),
      bytes |-> 749, tail |-> <<34, 140, 191, 228, 144>>,
      pos |-> 754, buffer_length |-> 5, buffer |-> 144, reads |-> 6027],
     [calls |-> 1073741566, low |-> U32(5298, 33671), high |-> U32(37989, 65317), code |-> U32(37989, 65315),
      bytes |-> 749, tail |-> <<34, 140, 191, 228, 127, 255, 255, 255, 64>>,
      pos |-> 754, buffer_length |-> 5, buffer |-> 127, reads |-> 6027],
     [calls |-> 535401812, low |-> U32(16289, 43055), high |-> U32(32768, 67), code |-> U32(32768, 66),
      bytes |-> 717, tail |-> <<64, 0, 0, 33, 0>>,
      pos |-> 722, buffer_length |-> 7, buffer |-> 0, reads |-> 5769],
     [calls |-> 535401812, low |-> U32(16289, 43055), high |-> U32(32768, 67), code |-> U32(16289, 43056),
      bytes |-> 717, tail |-> <<31, 208, 212, 24, 127, 255, 255, 248>>,
      pos |-> 722, buffer_length |-> 7, buffer |-> 127, reads |-> 5769],
     [calls |-> 535401812, low |-> U32(16289, 43055), high |-> U32(32768, 67), code |-> U32(32768, 64),
      bytes |-> 717, tail |-> <<64, 0, 0, 32, 127, 255, 255, 248>>,
      pos |-> 722, buffer_length |-> 7, buffer |-> 127, reads |-> 5769],
     [calls |-> 536870655, low |-> U32(16224, 22318), high |-> U32(48911, 33473), code |-> U32(48911, 33471),
      bytes |-> 717, tail |-> <<55, 225, 240, 87, 224>>,
      pos |-> 722, buffer_length |-> 5, buffer |-> 224, reads |-> 5771],
     [calls |-> 536870655, low |-> U32(16224, 22318), high |-> U32(48911, 33473), code |-> U32(16224, 22320),
      bytes |-> 717, tail |-> <<39, 236, 10, 230, 31, 255, 255, 254>>,
      pos |-> 722, buffer_length |-> 5, buffer |-> 31, reads |-> 5771],
     [calls |-> 536870655, low |-> U32(16224, 22318), high |-> U32(48911, 33473), code |-> U32(48911, 33469),
      bytes |-> 717, tail |-> <<55, 225, 240, 87, 191, 255, 255, 253>>,
      pos |-> 722, buffer_length |-> 5, buffer |-> 191, reads |-> 5771],
     [calls |-> 554525312, low |-> U32(16299, 16581), high |-> U32(33222, 1592), code |-> U32(33222, 1591),
      bytes |-> 718, tail |-> <<230, 7, 24, 24, 222>>,
      pos |-> 723, buffer_length |-> 2, buffer |-> 222, reads |-> 5782],
     [calls |-> 554525312, low |-> U32(16299, 16581), high |-> U32(33222, 1592), code |-> U32(33222, 1590),
      bytes |-> 718, tail |-> <<230, 7, 24, 24, 219, 255, 255, 255, 208>>,
      pos |-> 723, buffer_length |-> 2, buffer |-> 219, reads |-> 5782]}

WideEncoder(w) ==
    [high |-> w.high, low |-> w.low, underflow |-> w.underflow,
     symbols |-> Repeated(128, w.calls),
     bit_writer |-> [writer |-> [data |-> SubSeq(WideBytes, 1, w.bytes),
                                 capacity |-> OUTPUT_LEN, full |-> "short"],
                     buffer_length |-> w.buffer_length, buffer |-> w.buffer]]

WideDecoder(w) ==
    [high |-> w.high, low |-> w.low, code |-> w.code,
     symbols |-> Repeated(128, w.calls),
     bit_reader |-> [reader |-> [data |-> SubSeq(WideBytes, 1, w.bytes) \o w.tail,
                                 pos |-> w.pos],
                     buffer_length |-> w.buffer_length, buffer |-> w.buffer]]

InitWideEncoder ==
    /\ \/ enc = EncoderNew(SinkNew(OUTPUT_LEN)) /\ eshifts = 0
       \/ \E w \in WideEncoders : enc = WideEncoder(w) /\ eshifts = w.shifts
    /\ epc = "open"
    /\ InitNoDecoder
    /\ dpc = "unused"

InitWideDecoder ==
    /\ \E w \in WideDecoders : dec = WideDecoder(w) /\ dreads = w.reads
    /\ dpc = "open"
    /\ dsym = 0
    /\ output = <<>>
    /\ diters = 0
    /\ enc = Unused
    /\ epc = "unused"
    /\ eshifts = 0

InitWide ==
    /\ InitWideEncoder \/ InitWideDecoder
    /\ ecall = "none"
    /\ esym = 0
    /\ input = <<>>
    /\ eiters = 0
    /\ ehist = Unused
    /\ eshist = Unused
    /\ InitNoBits
    /\ InitNoTable

\* the caller decodes up to WideDecodes symbols and stops at the end of the stream
DecodeNextWide ==
    /\ Len(output) < WideDecodes
    /\ IF output = <<>> THEN TRUE ELSE output[Len(output)] # SYMBOL_EOF
    /\ DecodeNextEnter

NextWide ==
    \/ \E symbol \in WideChoices : Len(input) < WideLen /\ EncodeNextCall(symbol)
    \/ EncodeEndCall
    \/ EncoderLoopMatch
    \/ EncoderLoopUnderflow
    \/ EncoderLoopBreak
    \/ EncodeEndTail
    \/ DecodeNextWide
    \/ DecoderLoopMatch
    \/ DecoderLoopUnderflow
    \/ DecoderLoopBreak

SpecWide == InitWide /\ [][NextWide]_vars

\* ------------------------------------------------------------------------
\* Claims checked under SpecWide
\* ------------------------------------------------------------------------
\* an encoder, or a decoder, exists
EncoderLive == epc # "unused"
DecoderLive == dpc \in {"open", "loop", "panic"}

\* the interval invariant for the coders whose model total is at most `most`:
\* low < high in every state and at every point inside a loop iteration, no
\* assert!(high > low) has failed, and every narrowing the next call can make
\* gives low <= new_low < new_high <= high
IntervalHolds(most) ==
    /\ (EncoderLive /\ enc.symbols.symbol_count <= most) =>
           /\ epc \notin {"error", "panic"}
           /\ HighAboveLow(enc)
           /\ (epc = "loop" /\ LoopBranch(enc) = "match") => InsideIteration(enc, enc)
           /\ (epc = "loop" /\ LoopBranch(enc) = "underflow") =>
                  InsideIteration(enc, UnderflowBranch(enc))
           /\ (epc = "open") =>
                  \A symbol \in WideChoices, overflow_checks \in BOOLEAN :
                      LET n == calculate_symbol_range(overflow_checks, enc, symbol)
                      IN  n.status = "Ok" /\ Contained(enc, n.self)
    /\ (DecoderLive /\ dec.symbols.symbol_count <= most) =>
           /\ dpc # "panic"
           /\ HighAboveLow(dec)
           /\ (dpc = "loop" /\ LoopBranch(dec) = "match") => InsideIteration(dec, dec)
           /\ (dpc = "loop" /\ LoopBranch(dec) = "underflow") =>
                  InsideIteration(dec, DecoderUnderflowBranch(dec))
           /\ (dpc = "open") =>
                  \A overflow_checks \in BOOLEAN :
                      /\ calculate_code_range(overflow_checks, dec).status = "Ok"
                      /\ Contained(dec, calculate_code_range(overflow_checks, dec).self)

\* C6 as stated (interval invariant): while the model total is below 2^30, on
\* both sides low < high in every state and at every point inside a loop
\* iteration, no assert!(high > low) fails, and every narrowing gives
\* low <= new_low < new_high <= high.
C6_Interval == IntervalHolds(2^30 - 1)

\* C6 as amended: the same while the model total is at most 2^29. (The range
\* of a narrowing is at least 2^30 + 2, so at least twice such a total, which
\* leaves a symbol of count 1 two values or more.)
C6_IntervalSafe == IntervalHolds(2^29)

\* the encoder at a total within 2^21 of 2^29 has narrowed to symbol 0, whose
\* count is 1, and is left with an interval of two values
C6_Witness ==
    /\ epc = "loop" /\ eiters = 0 /\ esym = 0
    /\ enc.symbols.symbol_count > 2^29 - 2^21
    /\ enc.symbols.symbol_count <= 2^29
    /\ enc.symbols.table[0].count = 1
    /\ enc.high = BigAdd(enc.low, BigOne)

\* a 64-bit value that a cast to u32 leaves as it is
FitsU32(a) == a[3] < 4 /\ a[4] = 0 /\ a[5] = 0

\* the usize value that is cast to u32 for the new high
WideHigh(self, symbol_upper) ==
    BigSub(BigAdd(self.low,
                  BigDiv(BigMul(Nat2Big(symbol_upper), RangeOf(self)),
                         Nat2Big(self.symbols.symbol_count))),
           BigOne)

\* the usize value that is cast to u32 for the new low
WideLow(self, symbol_lower) ==
    BigAdd(self.low,
           BigDiv(BigMul(Nat2Big(symbol_lower), RangeOf(self)),
                  Nat2Big(self.symbols.symbol_count)))

\* the narrowing of self to symbol stays inside its integer widths
WidthsFit(self, symbol) ==
    LET symbol_lower == self.symbols.table[symbol].cumulative_count
        symbol_upper == symbol_lower + self.symbols.table[symbol].count
        range == RangeOf(self)
    IN  /\ FitsU64(BigMul(Nat2Big(symbol_upper), range))
        /\ BigLess(BigMul(Nat2Big(symbol_upper), range), Pow2Big(62))
        /\ FitsU64(BigMul(Nat2Big(symbol_lower), range))
        /\ FitsU32(WideHigh(self, symbol_upper))
        /\ FitsU32(WideLow(self, symbol_lower))
        /\ \A overflow_checks \in BOOLEAN :
               NarrowHigh(overflow_checks, self, symbol_upper, range)
                   = [status |-> "Ok", high |-> WideHigh(self, symbol_upper)]
        /\ NarrowLow(self, symbol_lower, range)
               = [status |-> "Ok", low |-> WideLow(self, symbol_lower)]

\* the product of calculate_code_range stays inside 64 bits
ScaleFits(self) ==
    FitsU64(BigMul(BigAdd(BigSub(self.code, self.low), BigOne),
                   Nat2Big(self.symbols.symbol_count)))

\* a step that enters encode_next or decode_next keeps the narrowing it
\* computes inside the integer widths
NarrowStep ==
    /\ (epc = "open" /\ epc' # "open" /\ enc.symbols.symbol_count < 2^30)
           => WidthsFit(enc, esym')
    /\ (dpc = "open" /\ dpc' = "loop" /\ dec.symbols.symbol_count < 2^30)
           => (ScaleFits(dec) /\ WidthsFit(dec, dsym'))

\* C19 (integer widths): while the model total is below 2^30, the products
\* symbol_upper * range, symbol_lower * range and (code - low + 1) * total that
\* narrowing and decoding compute are below 2^64, and the values cast to u32
\* for the new high and the new low are at most 0xFFFFFFFF, so the casts
\* change nothing.
C19_IntegerWidths == [][NarrowStep]_vars

\* a decoder at the total 1072693249 has narrowed to the last symbol of the
\* table: symbol_upper is the total, the range is 2751317829, and their product
\* is above 2^61; the new high is the old one
C19_Witness ==
    /\ dpc = "loop" /\ diters = 0
    /\ dsym = SYMBOL_EOF
    /\ dec.symbols.symbol_count = 1072693249
    /\ dec.high = U32(42643, 9463)
    /\ BigLess(U32(42643, 0), dec.low)

\* ------------------------------------------------------------------------
\* SpecEmpty: a decoder is built over a source that delivers no bytes, or one
\* byte, and decode_next is called again and again; there is no encoder
\* ------------------------------------------------------------------------
\* the most decode_next calls on one source
EmptyDecodes == 20

\* the sources of this specification: the empty one, and one byte that puts
\* the code next to the midpoint
ShortSources == {<<>>, <<127>>}

InitEmpty ==
    /\ InitNoCoder
    /\ InitNoBits
    /\ InitNoTable

\* Decoder::new over a short source
DecoderNewShort(source) ==
    /\ dpc = "unused"
    /\ dec' = DecoderNew(SourceNew(source))
    /\ dpc' = "open"
    /\ dreads' = DecoderNewCounted(SourceNew(source)).reads
    /\ UNCHANGED <<dsym, output, diters, encoderVars, bitVars, tableVars>>

\* the caller decodes up to EmptyDecodes symbols
DecodeNextAgain ==
    /\ Len(output) < EmptyDecodes
    /\ DecodeNextEnter

NextEmpty ==
    \/ \E source \in ShortSources : DecoderNewShort(source)
    \/ DecodeNextAgain
    \/ DecoderLoopMatch
    \/ DecoderLoopUnderflow
    \/ DecoderLoopBreak

SpecEmpty == InitEmpty /\ [][NextEmpty]_vars

\* ------------------------------------------------------------------------
\* Claims checked under SpecEmpty
\* ------------------------------------------------------------------------
\* a decoder exists and its source delivers no bytes
OverNothing == dpc \in {"open", "loop", "panic"} /\ dec.bit_reader.reader.data = <<>>

\* C22 (empty source): a decoder constructed over a source that delivers no
\* bytes has code = 0xFFFFFFFF, keeps code = high through every decode_next
\* call, and every decode_next call returns 256, the end of the stream, the
\* first one included: a stream truncated to nothing decodes as the empty
\* sequence.
C22_EmptySource ==
    OverNothing =>
        /\ dpc # "panic"
        /\ FreshDecoder => dec.code = U32(65535, 65535)
        /\ dec.code = dec.high
        /\ \A k \in 1..Len(output) : output[k] = SYMBOL_EOF
        /\ (dpc = "loop") => (dsym = SYMBOL_EOF /\ LoopBranch(dec) # "underflow")
        /\ (dpc = "open") =>
               \A overflow_checks \in BOOLEAN :
                   /\ calculate_code_range(overflow_checks, dec).status = "Ok"
                   /\ calculate_code_range(overflow_checks, dec).symbol = SYMBOL_EOF

\* the tenth decode_next over the empty source has returned, after iterations
\* of its loop, and the source is still at its start
C22_Witness ==
    /\ OverNothing /\ dpc = "open"
    /\ Len(output) = 10 /\ output[1] = SYMBOL_EOF /\ output[10] = SYMBOL_EOF
    /\ diters >= 1
    /\ dec.code = dec.high
    /\ dec.symbols.table[SYMBOL_EOF].count = 11
    /\ dec.bit_reader.reader.pos = 0

====
